---- MODULE Spec2Model ----
(***************************************************************************)
(* Pub/sub channel multiplexer of aury-boot.                               *)
(*                                                                         *)
(*   RedisChannel         infrastructure/channel/backends/redis.py        *)
(*   RedisClusterChannel  infrastructure/channel/backends/                 *)
(*                        redis_cluster_channel.py, redis_cluster.py       *)
(*                                                                         *)
(* Every coroutine is cut at its awaits that really suspend (a lock that   *)
(* is held, broker I/O, a queue that is empty, the join of a task); the    *)
(* code between two such awaits runs as one action, as it does on the      *)
(* single-threaded asyncio loop.                                           *)
(***************************************************************************)
EXTENDS Integers, Sequences, FiniteSets, TLC

\* ------------------------------------------------------------- bounds

MaxConn      == 2   \* connections _ensure_connected may create in one run
MaxListeners == 3   \* listener tasks _start_listener may create in one run
MaxMsgs      == 2   \* publish() calls in one run
MaxCloses    == 2   \* close() calls in one run
QueueMaxsize == 1   \* asyncio.Queue(maxsize=1000), scaled down

\* ------------------------------------------------------------- names

NoHandle == 0       \* None, for _redis / _pubsub
NoTask   == 0       \* None, for _listener_task

Consumers == {"c1", "c2", "c3"}
Topics    == {"a", "b"}
Patterns  == {"a*", "a"}    \* a glob, and a pattern spelt like the topic "a": of
                            \*   the topics of the model both match "a" only
Handles   == 1..MaxConn
Listeners == 1..MaxListeners

\* Redis glob matching, for the patterns of the model.
Matches(p, t) == p \in {"a*", "a"} /\ t = "a"

\* ------------------------------------------------------------- state

VARIABLES
    impl,                   \* the IChannel backend the host constructed:
                            \*   "redis" (RedisChannel) or "cluster" (RedisClusterChannel)
    \* RedisChannel fields
    connected,              \* _connected
    redis,                  \* _redis   (a handle, or NoHandle)
    pubsub,                 \* _pubsub  (a handle, or NoHandle)
    listener_task,          \* _listener_task (a listener, or NoTask)
    subscribers,            \* _subscribers: topic -> set of queues (by owner)
    pattern_subscribers,    \* _pattern_subscribers: pattern -> set of queues
    lockHolder,             \* _subscription_lock: the task holding it, or "none"
    lockWaiters,            \* _subscription_lock: FIFO of tasks waiting for it
    subscribed_channels,    \* _subscribed_channels
    subscribed_patterns,    \* _subscribed_patterns
    \* handles and tasks the channel has created
    nconn,                  \* handles created so far: 1..nconn
    closedRedis,            \* redis handles on which close() was called
    closedPubsub,           \* pubsub handles on which close() was called
    nlisten,                \* listener tasks created so far: 1..nlisten
    ltask,                  \* listener -> "none","start","reading","sleeping","done"
    lcancel,                \* listeners whose cancel() was called
    \* the broker
    brokerSubs,             \* pubsub handle -> set of <<kind, name>> subscribed
    inbox,                  \* pubsub handle -> frames pushed, not yet read
    \* one subscribe()/psubscribe() generator per consumer
    pc,                     \* where the generator is suspended
    kind,                   \* "topic" (subscribe) or "pattern" (psubscribe)
    target,                 \* its channel / pattern argument
    hnd,                    \* the pubsub handle its pending broker call runs on
    queue,                  \* its asyncio.Queue
    recv,                   \* messages it has yielded to its caller
    \* publish() caller
    ppc, ptopic, phnd, nmsg,
    \* unsubscribe() caller
    upc, utopic, uhnd,
    \* close() caller
    kpc, kawait, ncloses,
    \* history, read by the properties only
    pres,                   \* how the last publish() ended
    owed,                   \* consumer -> ids the broker delivered for its target
                            \*   on the channel's handle since it registered
    dropped,                \* consumer -> ids dropped because its queue was full
    nsub,                   \* <<kind, name>> -> SUBSCRIBEs completed by setups
    nunsub,                 \* <<kind, name>> -> UNSUBSCRIBEs issued by cleanups
    atClose,                \* consumers that were blocked when a close() began
    overlap,                \* consumers whose setup overlapped a close()
    justClosed,             \* the step just taken completed a close()
    alone,                  \* no other call was in flight during the last
                            \*   close() (the one running, or the one ended)
    foreign,                \* consumer -> ids of the frames the broker delivered
                            \*   for its target with a body that is no envelope
    \* RedisClusterChannel fields
    cl_connected,           \* _connected
    cl_keys,                \* keys of the _subscribers dict
    cl_subs,                \* _subscribers: topic -> set of queues (by owner)
    cl_listener,            \* _listener_task: "none", "alive", "cancelled"
    \* RedisClusterBackend fields
    be_pubsub,              \* _pubsub (a handle, or NoHandle)
    be_listener,            \* _listener_task: "none", "alive", "done"
    be_subscribed,          \* _subscribed_channels
    be_queue,               \* _queue of Events
    cl_nconn,               \* sharded pubsub handles created so far
    \* the cluster
    cl_brokerSubs,          \* pubsub handle -> topics SSUBSCRIBEd
    cl_inbox,               \* pubsub handle -> frames pushed, not yet read
    \* one RedisClusterChannel.subscribe() generator per consumer
    cl_pc, cl_target, cl_hnd, cl_queue, cl_recv,
    \* publish() and close() callers of the cluster channel
    cl_ppc, cl_ptopic, cl_nmsg, cl_pres,
    cl_kpc, cl_ncloses, cl_kres,
    \* history of the cluster channel
    cl_atClose,             \* consumers that were blocked when a close() began
    cl_justClosed,          \* the step just taken ended a close() (returned or raised)
    cl_teardowns,            \* teardown calls made so far (cancel, SUNSUBSCRIBE, close)
    cl_foreign,             \* ids of the frames another client of the cluster
                            \*   published with a body that is no envelope
    cl_owed                 \* consumer -> ids the cluster delivered for its topic
                            \*   while the consumer was in its loop

chanVars   == <<connected, redis, pubsub, listener_task, subscribers,
                pattern_subscribers, lockHolder, lockWaiters,
                subscribed_channels, subscribed_patterns,
                nconn, nlisten, ltask>>
envVars    == <<closedRedis, closedPubsub, lcancel, brokerSubs, inbox>>
conVars    == <<pc, kind, target, hnd, queue, recv>>
pubVars    == <<ppc, ptopic, phnd, nmsg>>
unsubVars  == <<upc, utopic, uhnd>>
closeVars  == <<kpc, kawait, ncloses>>
msgHist    == <<pres, owed, dropped, foreign>>
opHist     == <<nsub, nunsub, atClose, overlap, justClosed, alone>>
redisVars  == <<chanVars, envVars, conVars, pubVars, unsubVars, closeVars,
                msgHist, opHist>>

clChan     == <<cl_connected, cl_keys, cl_subs, cl_listener, be_pubsub,
                be_listener, be_subscribed, cl_nconn>>
clEnv      == <<be_queue, cl_brokerSubs, cl_inbox>>
clCon      == <<cl_pc, cl_target, cl_hnd, cl_queue, cl_recv>>
clPub      == <<cl_ppc, cl_ptopic, cl_nmsg, cl_pres>>
clClose    == <<cl_kpc, cl_ncloses, cl_kres>>
clHist     == <<cl_atClose, cl_justClosed, cl_teardowns, cl_foreign, cl_owed>>
clusterVars == <<clChan, clEnv, clCon, clPub, clClose, clHist>>

\* The channel object (and the handle/task counters its methods advance) as
\* one record, so that the methods compose inside one atomic step.
St ==
    [connected |-> connected, redis |-> redis, pubsub |-> pubsub,
     listener_task |-> listener_task, subscribers |-> subscribers,
     pattern_subscribers |-> pattern_subscribers,
     lockHolder |-> lockHolder, lockWaiters |-> lockWaiters,
     subscribed_channels |-> subscribed_channels,
     subscribed_patterns |-> subscribed_patterns,
     nconn |-> nconn, nlisten |-> nlisten, ltask |-> ltask]

Commit(s) ==
    /\ connected' = s.connected
    /\ redis' = s.redis
    /\ pubsub' = s.pubsub
    /\ listener_task' = s.listener_task
    /\ subscribers' = s.subscribers
    /\ pattern_subscribers' = s.pattern_subscribers
    /\ lockHolder' = s.lockHolder
    /\ lockWaiters' = s.lockWaiters
    /\ subscribed_channels' = s.subscribed_channels
    /\ subscribed_patterns' = s.subscribed_patterns
    /\ nconn' = s.nconn
    /\ nlisten' = s.nlisten
    /\ ltask' = s.ltask

\* ------------------------------------------------- RedisChannel methods

\* An _ensure_connected that connects a fresh channel only.
EnsureConnectedOnce(s) ==
    IF s.connected \/ s.nconn > 0 THEN s
    ELSE [s EXCEPT !.redis = s.nconn + 1, !.pubsub = s.nconn + 1,
                   !.nconn = s.nconn + 1, !.connected = TRUE]

\* _ensure_connected: no await inside; creates both handles when not connected.
EnsureConnected(s) ==
    IF s.connected THEN s
    ELSE [s EXCEPT !.redis = s.nconn + 1, !.pubsub = s.nconn + 1,
                   !.nconn = s.nconn + 1, !.connected = TRUE]

CanConnect(s) == s.connected \/ s.nconn < MaxConn

\* _start_listener: a new task only when there is none or it is done().
ListenerRunning(s) ==
    s.listener_task # NoTask /\ s.ltask[s.listener_task] # "done"

\* A _start_listener that leaves a finished task in place.
StartListenerOnce(s) ==
    IF s.listener_task # NoTask THEN s
    ELSE [s EXCEPT !.ltask[s.nlisten + 1] = "start",
                   !.nlisten = s.nlisten + 1,
                   !.listener_task = s.nlisten + 1]

StartListener(s) ==
    IF ListenerRunning(s) THEN s
    ELSE [s EXCEPT !.ltask[s.nlisten + 1] = "start",
                   !.nlisten = s.nlisten + 1,
                   !.listener_task = s.nlisten + 1]

CanStartListener(s) == ListenerRunning(s) \/ s.nlisten < MaxListeners

\* asyncio.Lock.acquire: immediate when free, else FIFO wait.
Acquire(s, t) ==
    IF s.lockHolder = "none" THEN [s EXCEPT !.lockHolder = t]
    ELSE [s EXCEPT !.lockWaiters = Append(s.lockWaiters, t)]

\* asyncio.Lock.release: wakes the first waiter, which then owns the lock.
Release(s) ==
    IF s.lockWaiters = <<>> THEN [s EXCEPT !.lockHolder = "none"]
    ELSE [s EXCEPT !.lockHolder = Head(s.lockWaiters),
                   !.lockWaiters = Tail(s.lockWaiters)]

\* A task cancelled while it waits for the lock leaves the FIFO; one that was
\* just woken as owner passes the lock on.
RECURSIVE Without(_, _)
Without(seq, t) ==
    IF seq = <<>> THEN <<>>
    ELSE IF Head(seq) = t THEN Without(Tail(seq), t)
    ELSE <<Head(seq)>> \o Without(Tail(seq), t)

AbandonLock(s, t) ==
    IF s.lockHolder = t THEN Release(s)
    ELSE [s EXCEPT !.lockWaiters = Without(s.lockWaiters, t)]

\* The registration table a generator works on, and the subscribed set.
Table(s, k) == IF k = "topic" THEN s.subscribers ELSE s.pattern_subscribers

\* One subscribed set for topics and patterns alike.
SubscribedShared(s, k) == s.subscribed_channels \cup s.subscribed_patterns

Subscribed(s, k) ==
    IF k = "topic" THEN s.subscribed_channels ELSE s.subscribed_patterns

AddQueue(s, k, t, c) ==
    IF k = "topic" THEN [s EXCEPT !.subscribers[t] = @ \cup {c}]
    ELSE [s EXCEPT !.pattern_subscribers[t] = @ \cup {c}]

DiscardQueue(s, k, t, c) ==
    IF k = "topic" THEN [s EXCEPT !.subscribers[t] = @ \ {c}]
    ELSE [s EXCEPT !.pattern_subscribers[t] = @ \ {c}]

MarkSubscribed(s, k, t) ==
    IF k = "topic" THEN [s EXCEPT !.subscribed_channels = @ \cup {t}]
    ELSE [s EXCEPT !.subscribed_patterns = @ \cup {t}]

MarkUnsubscribed(s, k, t) ==
    IF k = "topic" THEN [s EXCEPT !.subscribed_channels = @ \ {t}]
    ELSE [s EXCEPT !.subscribed_patterns = @ \ {t}]

\* ------------------------------------------------------------ history

Targets == ({"topic"} \X Topics) \cup ({"pattern"} \X Patterns)

InSetup(v) == v \in {"setup_lock", "setup_sub"}

\* The history variables that are functions of the step taken.
History ==
    /\ nsub' = [x \in Targets |->
                    IF \E c \in Consumers :
                          /\ pc[c] = "setup_sub"
                          /\ pc'[c] = "consuming"
                          /\ x = <<kind[c], target[c]>>
                    THEN nsub[x] + 1 ELSE nsub[x]]
    /\ nunsub' = [x \in Targets |->
                    IF \E c \in Consumers :
                          /\ pc[c] # "clean_unsub"
                          /\ pc'[c] = "clean_unsub"
                          /\ x = <<kind[c], target[c]>>
                    THEN nunsub[x] + 1 ELSE nunsub[x]]
    /\ atClose' = atClose \cup
                    {c \in Consumers : pc[c] = "consuming" /\ ncloses' # ncloses}
    /\ overlap' = overlap \cup
                    {c \in Consumers :
                        /\ \/ InSetup(pc[c])
                           \/ InSetup(pc'[c])
                           \/ pc[c] = "idle" /\ pc'[c] # "idle"
                        /\ \/ kpc # "idle"
                           \/ kpc' # "idle"
                           \/ ncloses' # ncloses}
    /\ justClosed' = (kpc' = "idle" /\ (kpc # "idle" \/ ncloses' # ncloses))
    /\ alone' = IF ncloses' # ncloses
                THEN /\ \A c \in Consumers :
                            pc[c] \notin {"setup_lock", "setup_sub",
                                       "clean_lock", "clean_unsub"}
                     /\ ppc = "idle"
                     /\ upc = "idle"
                ELSE IF /\ kpc # "idle"
                        /\ \/ pc' # pc
                           \/ ppc' # ppc
                           \/ upc' # upc
                           \/ nconn' # nconn
                     THEN FALSE
                     ELSE alone
    /\ impl = "redis"
    /\ UNCHANGED <<impl, clusterVars>>

\* ------------------------------------------------------------ the broker

\* SUBSCRIBE / PSUBSCRIBE taking effect for a pubsub handle.
BrokerSubscribe(h, k, t) ==
    brokerSubs' = [brokerSubs EXCEPT ![h] = @ \cup {<<k, t>>}]

\* UNSUBSCRIBE / PUNSUBSCRIBE taking effect for a pubsub handle.
BrokerUnsubscribe(h, k, t) ==
    brokerSubs' = [brokerSubs EXCEPT ![h] = @ \ {<<k, t>>}]

\* ------------------------------------- subscribe() / psubscribe() generator

Ended == {"done", "err_runtime", "err_attr", "err_io", "cancelled"}

SetPc(c, v) == pc' = [pc EXCEPT ![c] = v]

\* A setup that issues the broker call without looking at the subscribed set.
SetupLockedAlways(s, c, k, t) ==
    IF s.pubsub = NoHandle
    THEN /\ Commit(Release(s))
         /\ SetPc(c, "err_attr")
         /\ UNCHANGED hnd
    ELSE /\ Commit(s)
         /\ SetPc(c, "setup_sub")
         /\ hnd' = [hnd EXCEPT ![c] = s.pubsub]

\* Body of the first `async with self._subscription_lock`, entered holding
\* the lock: SUBSCRIBE only when the target is not recorded as subscribed,
\* then _start_listener and the consumption loop.
SetupLocked(s, c, k, t) ==
    IF t \in Subscribed(s, k)
    THEN /\ CanStartListener(Release(s))
         /\ Commit(StartListener(Release(s)))
         /\ SetPc(c, "consuming")
         /\ UNCHANGED hnd
    ELSE IF s.pubsub = NoHandle
    THEN /\ Commit(Release(s))              \* None.subscribe: AttributeError
         /\ SetPc(c, "err_attr")
         /\ UNCHANGED hnd
    ELSE /\ Commit(s)                       \* await self._pubsub.subscribe(...)
         /\ SetPc(c, "setup_sub")
         /\ hnd' = [hnd EXCEPT ![c] = s.pubsub]

\* subscribe(channel) / psubscribe(pattern) up to its first suspension.
SubscribeStart(c, k, t) ==
    /\ pc[c] = "idle"
    /\ CanConnect(St)
    /\ kind' = [kind EXCEPT ![c] = k]
    /\ target' = [target EXCEPT ![c] = t]
    /\ LET s1 == EnsureConnected(St) IN
       IF s1.pubsub = NoHandle
       THEN /\ Commit(s1)                   \* RuntimeError("pubsub not initialised")
            /\ SetPc(c, "err_runtime")
            /\ UNCHANGED hnd
       ELSE LET s2 == Acquire(AddQueue(s1, k, t, c), c) IN
            IF s2.lockHolder = c
            THEN SetupLocked(s2, c, k, t)
            ELSE /\ Commit(s2)
                 /\ SetPc(c, "setup_lock")
                 /\ UNCHANGED hnd
    /\ UNCHANGED <<envVars, queue, recv, pubVars, unsubVars, closeVars, msgHist>>
    /\ History

\* The lock was handed to a generator waiting in its setup.
SetupGotLock(c) ==
    /\ pc[c] = "setup_lock"
    /\ lockHolder = c
    /\ SetupLocked(St, c, kind[c], target[c])
    /\ UNCHANGED <<envVars, kind, target, queue, recv, pubVars, unsubVars, closeVars, msgHist>>
    /\ History

\* The broker call of the setup returns: recorded as subscribed, lock released,
\* listener ensured, the loop entered.
SetupSubDone(c) ==
    /\ pc[c] = "setup_sub"
    /\ LET s == StartListener(Release(MarkSubscribed(St, kind[c], target[c]))) IN
       /\ CanStartListener(Release(St))
       /\ Commit(s)
    /\ BrokerSubscribe(hnd[c], kind[c], target[c])
    /\ SetPc(c, "consuming")
    /\ hnd' = [hnd EXCEPT ![c] = NoHandle]
    /\ UNCHANGED <<closedRedis, closedPubsub, lcancel, inbox,
                   kind, target, queue, recv, pubVars, unsubVars, closeVars, msgHist>>
    /\ History

\* The broker call of the setup raises: the exception leaves the generator
\* before its try/finally, only the lock is released.
SetupSubFail(c) ==
    /\ pc[c] = "setup_sub"
    /\ Commit(Release(St))
    /\ SetPc(c, "err_io")
    /\ hnd' = [hnd EXCEPT ![c] = NoHandle]
    /\ UNCHANGED <<envVars, kind, target, queue, recv, pubVars, unsubVars, closeVars, msgHist>>
    /\ History

\* A consumer that is handed the head of its queue and leaves it there.
ReceiveKeep(c) ==
    /\ pc[c] = "consuming"
    /\ queue[c] # <<>>
    /\ recv' = [recv EXCEPT ![c] = Append(@, Head(queue[c]))]
    /\ UNCHANGED <<chanVars, envVars, pc, kind, target, hnd, queue, pubVars,
                   unsubVars, closeVars, msgHist>>
    /\ History

\* The consumer takes the next message: queue.get() returns and it is yielded.
Receive(c) ==
    /\ pc[c] = "consuming"
    /\ queue[c] # <<>>
    /\ recv' = [recv EXCEPT ![c] = Append(@, Head(queue[c]))]
    /\ queue' = [queue EXCEPT ![c] = Tail(@)]
    /\ UNCHANGED <<chanVars, envVars, pc, kind, target, hnd, pubVars, unsubVars, closeVars, msgHist>>
    /\ History

\* Body of the `async with` of the finally block, entered holding the lock.
\* A cleanup that does not look at the registration set.
CleanLockedAlways(s, c, k, t) ==
    IF t \in Subscribed(s, k)
    THEN IF s.pubsub = NoHandle
         THEN /\ Commit(Release(MarkUnsubscribed(s, k, t)))
              /\ SetPc(c, "done")
              /\ UNCHANGED hnd
         ELSE /\ Commit(s)
              /\ SetPc(c, "clean_unsub")
              /\ hnd' = [hnd EXCEPT ![c] = s.pubsub]
    ELSE /\ Commit(Release(s))
         /\ SetPc(c, "done")
         /\ UNCHANGED hnd

CleanLocked(s, c, k, t) ==
    IF Table(s, k)[t] = {} /\ t \in Subscribed(s, k)
    THEN IF s.pubsub = NoHandle
         THEN /\ Commit(Release(MarkUnsubscribed(s, k, t)))   \* suppressed
              /\ SetPc(c, "done")
              /\ UNCHANGED hnd
         ELSE /\ Commit(s)                  \* await self._pubsub.unsubscribe(...)
              /\ SetPc(c, "clean_unsub")
              /\ hnd' = [hnd EXCEPT ![c] = s.pubsub]
    ELSE /\ Commit(Release(s))
         /\ SetPc(c, "done")
         /\ UNCHANGED hnd

\* The consumer stops: CancelledError at queue.get() (caught, break) or the
\* generator is closed at its yield; the finally block starts.
Exit(c) ==
    /\ pc[c] = "consuming"
    /\ LET s == Acquire(DiscardQueue(St, kind[c], target[c], c), c) IN
       IF s.lockHolder = c
       THEN CleanLocked(s, c, kind[c], target[c])
       ELSE /\ Commit(s)
            /\ SetPc(c, "clean_lock")
            /\ UNCHANGED hnd
    /\ UNCHANGED <<envVars, kind, target, queue, recv, pubVars, unsubVars, closeVars, msgHist>>
    /\ History

CleanGotLock(c) ==
    /\ pc[c] = "clean_lock"
    /\ lockHolder = c
    /\ CleanLocked(St, c, kind[c], target[c])
    /\ UNCHANGED <<envVars, kind, target, queue, recv, pubVars, unsubVars, closeVars, msgHist>>
    /\ History

\* The broker call of the cleanup returns: the target is no longer recorded
\* as subscribed.
CleanUnsubDone(c) ==
    /\ pc[c] = "clean_unsub"
    /\ Commit(Release(MarkUnsubscribed(St, kind[c], target[c])))
    /\ BrokerUnsubscribe(hnd[c], kind[c], target[c])
    /\ SetPc(c, "done")
    /\ hnd' = [hnd EXCEPT ![c] = NoHandle]
    /\ UNCHANGED <<closedRedis, closedPubsub, lcancel, inbox,
                   kind, target, queue, recv, pubVars, unsubVars, closeVars, msgHist>>
    /\ History

\* The broker call of the cleanup raises: suppress(Exception) swallows it and
\* the target is no longer recorded as subscribed all the same.
CleanUnsubFail(c) ==
    /\ pc[c] = "clean_unsub"
    /\ Commit(Release(MarkUnsubscribed(St, kind[c], target[c])))
    /\ UNCHANGED brokerSubs
    /\ SetPc(c, "done")
    /\ hnd' = [hnd EXCEPT ![c] = NoHandle]
    /\ UNCHANGED <<closedRedis, closedPubsub, lcancel, inbox,
                   kind, target, queue, recv, pubVars, unsubVars, closeVars, msgHist>>
    /\ History

\* CancelledError delivered while the setup waits for the lock or for the
\* broker: it propagates, nothing of the finally block runs. The command may
\* or may not have reached the broker.
CancelSetup(c) ==
    /\ \/ /\ pc[c] = "setup_lock"
          /\ Commit(AbandonLock(St, c))
          /\ UNCHANGED brokerSubs
       \/ /\ pc[c] = "setup_sub"
          /\ Commit(Release(St))
          /\ \/ BrokerSubscribe(hnd[c], kind[c], target[c])
             \/ UNCHANGED brokerSubs
    /\ SetPc(c, "cancelled")
    /\ hnd' = [hnd EXCEPT ![c] = NoHandle]
    /\ UNCHANGED <<closedRedis, closedPubsub, lcancel, inbox,
                   kind, target, queue, recv, pubVars, unsubVars, closeVars, msgHist>>
    /\ History

\* CancelledError delivered inside the finally block: suppress(Exception) does
\* not catch it, the rest of the block is skipped.
CancelCleanup(c) ==
    /\ \/ /\ pc[c] = "clean_lock"
          /\ Commit(AbandonLock(St, c))
          /\ UNCHANGED brokerSubs
       \/ /\ pc[c] = "clean_unsub"
          /\ Commit(Release(St))
          /\ \/ BrokerUnsubscribe(hnd[c], kind[c], target[c])
             \/ UNCHANGED brokerSubs
    /\ SetPc(c, "cancelled")
    /\ hnd' = [hnd EXCEPT ![c] = NoHandle]
    /\ UNCHANGED <<closedRedis, closedPubsub, lcancel, inbox,
                   kind, target, queue, recv, pubVars, unsubVars, closeVars, msgHist>>
    /\ History

\* WeakSet: the queue of a generator that ended without discarding it is
\* dropped from its set when the queue object is collected.
Collect(c) ==
    /\ pc[c] \in Ended
    /\ c \in Table(St, kind[c])[target[c]]
    /\ Commit(DiscardQueue(St, kind[c], target[c], c))
    /\ UNCHANGED <<envVars, conVars, pubVars, unsubVars, closeVars, msgHist>>
    /\ History

\* ------------------------------------------------------------- listener

\* The ChannelMessage the caller hands to publish() as the i-th message of a
\* run: its payload is a dict, a tuple or a list; its channel attribute is
\* unset or names another topic.
Payloads == <<"dict", "tuple", "list">>

Message(i) ==
    [id |-> i,
     data |-> Payloads[((i - 1) % Len(Payloads)) + 1],
     event |-> IF i % 2 = 1 THEN "created" ELSE "None",
     timestamp |-> <<"datetime", i>>,
     channel |-> IF i % 2 = 1 THEN "" ELSE "b"]

\* json.dumps / json.loads on a payload: a tuple is written as an array, an
\* array is read as a list.
JsonDumps(d) ==
    CASE d = "dict" -> "object"
      [] d \in {"tuple", "list"} -> "array"
      [] OTHER -> "null"

JsonLoads(j) ==
    CASE j = "object" -> "dict"
      [] j = "array" -> "list"
      [] OTHER -> "None"

\* datetime.isoformat / datetime.fromisoformat.
IsoFormat(ts) == <<"iso", ts[2]>>

FromIsoFormat(str) == <<"datetime", str[2]>>

\* The bodies another client may publish that are no envelope: text that is
\* not JSON, JSON that is not an object, an object whose timestamp is not an
\* ISO-8601 string.
Shapes == {"not_json", "not_object", "bad_timestamp"}

Malformed(id, channel, shape) ==
    [shape |-> shape, id |-> id, channel |-> channel, data |-> "null",
     event |-> "None", timestamp |-> <<"iso", id>>]

\* An envelope another client writes without a channel field: it parses.
Bare(id) ==
    [shape |-> "envelope", id |-> id, channel |-> "", data |-> "object",
     event |-> "foreign", timestamp |-> <<"iso", id>>]

\* A parser that accepts every body.
ParseErrorNone(body) == "none"

\* What parsing a body raises: json.loads raises JSONDecodeError, .get on a
\* value that is no dict raises AttributeError, datetime.fromisoformat raises
\* ValueError.
ParseError(body) ==
    CASE body.shape = "not_json" -> "JSONDecodeError"
      [] body.shape = "not_object" -> "AttributeError"
      [] body.shape = "bad_timestamp" -> "ValueError"
      [] OTHER -> "none"

\* `except (json.JSONDecodeError, KeyError, TypeError)`
Caught == {"JSONDecodeError", "KeyError", "TypeError"}

\* A parse that takes the channel from the envelope only.
DecodeEnvelopeChannel(body, channel) ==
    [id |-> body.id,
     channel |-> body.channel,
     data |-> JsonLoads(body.data),
     event |-> body.event,
     timestamp |-> FromIsoFormat(body.timestamp)]

\* The ChannelMessage _broadcast_to_queues builds from a frame body.
Decode(body, channel) ==
    [id |-> body.id,
     channel |-> IF body.channel # "" THEN body.channel ELSE channel,
     data |-> JsonLoads(body.data),
     event |-> body.event,
     timestamp |-> FromIsoFormat(body.timestamp)]

\* A dispatch that routes by the frame's channel only, whatever its type.
QueuesOfByChannel(f) ==
    IF f.channel # "" THEN subscribers[f.channel] ELSE {}

\* _dispatch_message: the queues a frame is routed to.
QueuesOf(f) ==
    IF f.type = "message" /\ f.channel # "" THEN subscribers[f.channel]
    ELSE IF f.type = "pmessage" /\ f.pattern # "" /\ f.channel # ""
    THEN pattern_subscribers[f.pattern]
    ELSE {}

\* A dispatch that stops after the first queue of the set.
BroadcastOne(qs, msg) ==
    LET one == IF qs = {} THEN {} ELSE {CHOOSE c \in qs : TRUE} IN
    /\ queue' = [c \in Consumers |->
                   IF c \in one /\ Len(queue[c]) < QueueMaxsize
                   THEN Append(queue[c], msg) ELSE queue[c]]
    /\ dropped' = [c \in Consumers |->
                   IF c \in one /\ Len(queue[c]) >= QueueMaxsize
                   THEN dropped[c] \cup {msg.id} ELSE dropped[c]]

\* A dispatch that awaits queue.put(): it cannot go on while a queue is full.
BroadcastBlocking(qs, msg) ==
    /\ \A c \in qs : Len(queue[c]) < QueueMaxsize
    /\ queue' = [c \in Consumers |->
                   IF c \in qs THEN Append(queue[c], msg) ELSE queue[c]]
    /\ UNCHANGED dropped

\* A dispatch that needs the subscription lock to be free.
BroadcastUnderLock(qs, msg) ==
    /\ lockHolder = "none"
    /\ queue' = [c \in Consumers |->
                   IF c \in qs /\ Len(queue[c]) < QueueMaxsize
                   THEN Append(queue[c], msg) ELSE queue[c]]
    /\ dropped' = [c \in Consumers |->
                   IF c \in qs /\ Len(queue[c]) >= QueueMaxsize
                   THEN dropped[c] \cup {msg.id} ELSE dropped[c]]

\* _broadcast_to_queues: put_nowait on every queue; QueueFull drops the
\* message for that queue only.
Broadcast(qs, msg) ==
    /\ queue' = [c \in Consumers |->
                   IF c \in qs /\ Len(queue[c]) < QueueMaxsize
                   THEN Append(queue[c], msg) ELSE queue[c]]
    /\ dropped' = [c \in Consumers |->
                   IF c \in qs /\ Len(queue[c]) >= QueueMaxsize
                   THEN dropped[c] \cup {msg.id} ELSE dropped[c]]

\* A loop that also ends when no consumer is registered any more.
LoopCheckRegistered(l) ==
    ltask' = [ltask EXCEPT ![l] =
                 IF connected /\ (\E t \in Topics : subscribers[t] # {})
                 THEN "reading" ELSE "done"]

\* `while self._connected`, evaluated when the loop comes round.
LoopCheck(l) ==
    ltask' = [ltask EXCEPT ![l] = IF connected THEN "reading" ELSE "done"]

Live(l) == ltask[l] \in {"start", "reading", "sleeping"}

\* First run of the task: returns at once when there is no pubsub handle.
ListenerRun(l) ==
    /\ ltask[l] = "start"
    /\ l \notin lcancel
    /\ IF pubsub = NoHandle
       THEN ltask' = [ltask EXCEPT ![l] = "done"]
       ELSE LoopCheck(l)
    /\ UNCHANGED <<connected, redis, pubsub, listener_task, subscribers,
                   pattern_subscribers, lockHolder, lockWaiters,
                   subscribed_channels, subscribed_patterns, nconn, nlisten,
                   envVars, conVars, pubVars, unsubVars, closeVars, msgHist>>
    /\ History

\* get_message returns a frame: it is dispatched before the next await. A
\* body that does not parse is dropped inside _broadcast_to_queues when the
\* error is one it catches; any other error reaches the handler of the loop,
\* which sleeps and reads on.
ListenerGet(l) ==
    /\ ltask[l] = "reading"
    /\ l \notin lcancel
    /\ pubsub # NoHandle
    /\ pubsub \notin closedPubsub
    /\ inbox[pubsub] # <<>>
    /\ LET f == Head(inbox[pubsub])
           qs == QueuesOf(f)
           err == IF qs = {} THEN "none" ELSE ParseError(f.data) IN
       /\ IF err = "none"
          THEN Broadcast(qs, Decode(f.data, f.channel))
          ELSE UNCHANGED <<queue, dropped>>
       /\ IF err \in Caught \cup {"none"}
          THEN LoopCheck(l)
          ELSE ltask' = [ltask EXCEPT ![l] =
                            IF connected THEN "sleeping" ELSE "done"]
    /\ inbox' = [inbox EXCEPT ![pubsub] = Tail(@)]
    /\ UNCHANGED <<connected, redis, pubsub, listener_task, subscribers,
                   pattern_subscribers, lockHolder, lockWaiters,
                   subscribed_channels, subscribed_patterns, nconn, nlisten,
                   closedRedis, closedPubsub, lcancel, brokerSubs,
                   pc, kind, target, hnd, recv, pubVars, unsubVars, closeVars,
                   pres, owed, foreign>>
    /\ History

\* get_message times out (None) after the channel was marked not connected:
\* the loop ends.
ListenerTimeout(l) ==
    /\ ltask[l] = "reading"
    /\ l \notin lcancel
    /\ ~connected
    /\ LoopCheck(l)
    /\ UNCHANGED <<connected, redis, pubsub, listener_task, subscribers,
                   pattern_subscribers, lockHolder, lockWaiters,
                   subscribed_channels, subscribed_patterns, nconn, nlisten,
                   envVars, conVars, pubVars, unsubVars, closeVars, msgHist>>
    /\ History

\* get_message raises (transport error, or no handle): sleep(1) while
\* connected, else straight back to the loop condition.
\* A listener that a failed read terminates.
ListenerErrorFatal(l) ==
    /\ ltask[l] = "reading"
    /\ l \notin lcancel
    /\ ltask' = [ltask EXCEPT ![l] = "done"]
    /\ UNCHANGED <<connected, redis, pubsub, listener_task, subscribers,
                   pattern_subscribers, lockHolder, lockWaiters,
                   subscribed_channels, subscribed_patterns, nconn, nlisten,
                   envVars, conVars, pubVars, unsubVars, closeVars, msgHist>>
    /\ History

ListenerError(l) ==
    /\ ltask[l] = "reading"
    /\ l \notin lcancel
    /\ ltask' = [ltask EXCEPT ![l] = IF connected THEN "sleeping" ELSE "done"]
    /\ UNCHANGED <<connected, redis, pubsub, listener_task, subscribers,
                   pattern_subscribers, lockHolder, lockWaiters,
                   subscribed_channels, subscribed_patterns, nconn, nlisten,
                   envVars, conVars, pubVars, unsubVars, closeVars, msgHist>>
    /\ History

ListenerWake(l) ==
    /\ ltask[l] = "sleeping"
    /\ l \notin lcancel
    /\ LoopCheck(l)
    /\ UNCHANGED <<connected, redis, pubsub, listener_task, subscribers,
                   pattern_subscribers, lockHolder, lockWaiters,
                   subscribed_channels, subscribed_patterns, nconn, nlisten,
                   envVars, conVars, pubVars, unsubVars, closeVars, msgHist>>
    /\ History

\* A listener that swallows CancelledError inside its loop and reads on.
ListenerSwallowsCancel(l) ==
    /\ Live(l)
    /\ l \in lcancel
    /\ lcancel' = lcancel \ {l}
    /\ UNCHANGED <<chanVars, closedRedis, closedPubsub, brokerSubs, inbox,
                   conVars, pubVars, unsubVars, closeVars, msgHist>>
    /\ History

\* CancelledError reaches the task at its await: re-raised, swallowed by the
\* outer handler, the task ends.
ListenerCancelled(l) ==
    /\ Live(l)
    /\ l \in lcancel
    /\ ltask' = [ltask EXCEPT ![l] = "done"]
    /\ UNCHANGED <<connected, redis, pubsub, listener_task, subscribers,
                   pattern_subscribers, lockHolder, lockWaiters,
                   subscribed_channels, subscribed_patterns, nconn, nlisten,
                   envVars, conVars, pubVars, unsubVars, closeVars, msgHist>>
    /\ History

\* -------------------------------------------------------------- publish

\* A publish() that keeps the channel attribute the caller had set.
EncodeCallerChannel(id, channel) ==
    [shape |-> "envelope",
     id |-> Message(id).id,
     channel |-> IF Message(id).channel # "" THEN Message(id).channel ELSE channel,
     data |-> JsonDumps(Message(id).data),
     event |-> Message(id).event,
     timestamp |-> IsoFormat(Message(id).timestamp)]

\* The JSON body publish() writes: message.channel is overwritten first.
Encode(id, channel) ==
    [shape |-> "envelope",
     id |-> Message(id).id,
     channel |-> channel,               \* message.channel = channel
     data |-> JsonDumps(Message(id).data),
     event |-> Message(id).event,
     timestamp |-> IsoFormat(Message(id).timestamp)]

\* The frames the broker pushes on a pubsub handle for one PUBLISH.
RECURSIVE PatternFrames(_, _, _, _)
PatternFrames(ps, h, t, body) ==
    IF ps = {} THEN <<>>
    ELSE LET p == CHOOSE x \in ps : TRUE IN
         (IF <<"pattern", p>> \in brokerSubs[h] /\ Matches(p, t)
          THEN <<[type |-> "pmessage", channel |-> t, pattern |-> p, data |-> body]>>
          ELSE <<>>) \o PatternFrames(ps \ {p}, h, t, body)

Frames(h, t, body) ==
    (IF <<"topic", t>> \in brokerSubs[h]
     THEN <<[type |-> "message", channel |-> t, pattern |-> "", data |-> body]>>
     ELSE <<>>) \o PatternFrames(Patterns, h, t, body)

\* Consumers in their loop whose target the broker serves on the channel's
\* current pubsub handle for a message on topic t.
Served(c, t) ==
    /\ pc[c] = "consuming"
    /\ pubsub # NoHandle
    /\ pubsub \notin closedPubsub
    /\ <<kind[c], target[c]>> \in brokerSubs[pubsub]
    /\ IF kind[c] = "topic" THEN target[c] = t ELSE Matches(target[c], t)

\* publish() up to its await of the broker write.
PublishStart(t) ==
    /\ ppc = "idle"
    /\ CanConnect(St)
    /\ EnsureConnected(St).redis # NoHandle => nmsg < MaxMsgs
    /\ LET s == EnsureConnected(St) IN
       /\ Commit(s)
       /\ IF s.redis = NoHandle
          THEN /\ pres' = "err_runtime"     \* RuntimeError("Redis not connected")
               /\ UNCHANGED <<ppc, ptopic, phnd, nmsg>>
          ELSE /\ ppc' = "pub_await"
               /\ ptopic' = t
               /\ phnd' = s.redis
               /\ nmsg' = nmsg + 1
               /\ pres' = "none"
    /\ UNCHANGED <<envVars, conVars, unsubVars, closeVars, owed, dropped,
                   foreign>>
    /\ History

\* The broker write returns: the broker pushes the message to every open
\* pubsub connection subscribed to it.
PublishDone ==
    /\ ppc = "pub_await"
    /\ inbox' = [h \in Handles |->
                   IF h \in closedPubsub THEN inbox[h]
                   ELSE inbox[h] \o Frames(h, ptopic, Encode(nmsg, ptopic))]
    /\ owed' = [c \in Consumers |->
                   IF Served(c, ptopic) THEN owed[c] \cup {nmsg} ELSE owed[c]]
    /\ ppc' = "idle"
    /\ ptopic' = ""
    /\ phnd' = NoHandle
    /\ pres' = "ok"
    /\ UNCHANGED <<chanVars, closedRedis, closedPubsub, lcancel, brokerSubs,
                   conVars, nmsg, unsubVars, closeVars, dropped, foreign>>
    /\ History

\* The broker write raises: the error propagates to the caller.
PublishFail ==
    /\ ppc = "pub_await"
    /\ ppc' = "idle"
    /\ ptopic' = ""
    /\ phnd' = NoHandle
    /\ pres' = "err_io"
    /\ UNCHANGED <<chanVars, envVars, conVars, nmsg,
                   unsubVars, closeVars, owed, dropped, foreign>>
    /\ History

\* Another client of the broker publishes on topic t a body that is no
\* envelope, or an envelope without a channel field: the broker pushes it like
\* any other message.
ForeignPublish(t, shape) ==
    /\ ppc = "idle"
    /\ nmsg < MaxMsgs
    /\ shape \in Shapes \cup {"envelope"}
    /\ nmsg' = nmsg + 1
    /\ LET body == IF shape = "envelope" THEN Bare(nmsg + 1)
                   ELSE Malformed(nmsg + 1, t, shape) IN
       inbox' = [h \in Handles |->
                   IF h \in closedPubsub THEN inbox[h]
                   ELSE inbox[h] \o Frames(h, t, body)]
    /\ foreign' = [c \in Consumers |->
                      IF Served(c, t) /\ shape \in Shapes
                      THEN foreign[c] \cup {nmsg + 1}
                      ELSE foreign[c]]
    /\ UNCHANGED <<chanVars, closedRedis, closedPubsub, lcancel, brokerSubs,
                   conVars, ppc, ptopic, phnd, unsubVars, closeVars,
                   pres, owed, dropped>>
    /\ History

\* The broker answers a PING on the pubsub connection: a frame of type "pong"
\* that names no channel and no pattern, whatever its body.
Pong ==
    /\ pubsub # NoHandle
    /\ pubsub \notin closedPubsub
    /\ Len(inbox[pubsub]) < MaxMsgs
    /\ inbox' = [inbox EXCEPT ![pubsub] =
                    Append(@, [type |-> "pong", channel |-> "", pattern |-> "",
                               data |-> Bare(0)])]
    /\ UNCHANGED <<chanVars, closedRedis, closedPubsub, lcancel, brokerSubs,
                   conVars, pubVars, unsubVars, closeVars, msgHist>>
    /\ History

\* ---------------------------------------------------------- unsubscribe

\* Body of unsubscribe()'s `async with`, entered holding the lock.
UnsubLocked(s, t) ==
    IF s.pubsub # NoHandle /\ t \in s.subscribed_channels
    THEN /\ Commit(s)                       \* await self._pubsub.unsubscribe(...)
         /\ upc' = "unsub_await"
         /\ utopic' = t
         /\ uhnd' = s.pubsub
    ELSE /\ Commit(Release(s))
         /\ upc' = "idle"
         /\ utopic' = ""
         /\ UNCHANGED uhnd

UnsubscribeStart(t) ==
    /\ upc = "idle"
    /\ LET s == Acquire(St, "u") IN
       IF s.lockHolder = "u"
       THEN UnsubLocked(s, t)
       ELSE /\ Commit(s)
            /\ upc' = "unsub_lock"
            /\ utopic' = t
            /\ UNCHANGED uhnd
    /\ UNCHANGED <<envVars, conVars, pubVars, closeVars, msgHist>>
    /\ History

UnsubscribeGotLock ==
    /\ upc = "unsub_lock"
    /\ lockHolder = "u"
    /\ UnsubLocked(St, utopic)
    /\ UNCHANGED <<envVars, conVars, pubVars, closeVars, msgHist>>
    /\ History

\* The broker call returns: the topic is no longer recorded as subscribed and
\* its whole registration set is popped.
UnsubscribeDone ==
    /\ upc = "unsub_await"
    /\ LET s == [St EXCEPT !.subscribed_channels = @ \ {utopic},
                           !.subscribers[utopic] = {}] IN
       Commit(Release(s))
    /\ BrokerUnsubscribe(uhnd, "topic", utopic)
    /\ upc' = "idle"
    /\ utopic' = ""
    /\ uhnd' = NoHandle
    /\ UNCHANGED <<closedRedis, closedPubsub, lcancel, inbox, conVars,
                   pubVars, closeVars, msgHist>>
    /\ History

\* The broker call raises: suppressed, the bookkeeping is dropped all the same.
UnsubscribeFail ==
    /\ upc = "unsub_await"
    /\ LET s == [St EXCEPT !.subscribed_channels = @ \ {utopic},
                           !.subscribers[utopic] = {}] IN
       Commit(Release(s))
    /\ UNCHANGED brokerSubs
    /\ upc' = "idle"
    /\ utopic' = ""
    /\ uhnd' = NoHandle
    /\ UNCHANGED <<closedRedis, closedPubsub, lcancel, inbox, conVars,
                   pubVars, closeVars, msgHist>>
    /\ History

\* ---------------------------------------------------------------- close

\* The four clear() calls that end close().
CloseFinish(s) ==
    /\ Commit([s EXCEPT !.subscribed_channels = {},
                        !.subscribed_patterns = {},
                        !.subscribers = [t \in Topics |-> {}],
                        !.pattern_subscribers = [p \in Patterns |-> {}]])
    /\ kpc' = "idle"

\* `if self._redis: await self._redis.close()`
CloseRedisStep(s) ==
    IF s.redis # NoHandle
    THEN /\ Commit(s)
         /\ closedRedis' = closedRedis \cup {s.redis}
         /\ kpc' = "close_redis"
    ELSE /\ UNCHANGED closedRedis
         /\ CloseFinish(s)

\* `if self._pubsub: await self._pubsub.close()`: the connection of the handle
\* goes away, and with it its subscriptions and unread frames.
ClosePubsubStep(s) ==
    IF s.pubsub # NoHandle
    THEN /\ Commit(s)
         /\ closedPubsub' = closedPubsub \cup {s.pubsub}
         /\ brokerSubs' = [brokerSubs EXCEPT ![s.pubsub] = {}]
         /\ inbox' = [inbox EXCEPT ![s.pubsub] = <<>>]
         /\ kpc' = "close_pubsub"
         /\ UNCHANGED closedRedis
    ELSE /\ UNCHANGED <<closedPubsub, brokerSubs, inbox>>
         /\ CloseRedisStep(s)

\* close() up to its first await.
CloseStart ==
    /\ kpc = "idle"
    /\ ncloses < MaxCloses
    /\ ncloses' = ncloses + 1
    /\ LET s == [St EXCEPT !.connected = FALSE] IN
       IF ListenerRunning(s)
       THEN /\ Commit(s)                    \* cancel(), await self._listener_task
            /\ lcancel' = lcancel \cup {s.listener_task}
            /\ kawait' = s.listener_task
            /\ kpc' = "close_listener"
            /\ UNCHANGED <<closedRedis, closedPubsub, brokerSubs, inbox>>
       ELSE /\ ClosePubsubStep(s)
            /\ UNCHANGED <<lcancel, kawait>>
    /\ UNCHANGED <<conVars, pubVars, unsubVars, msgHist>>
    /\ History

\* The awaited listener task has ended.
CloseListenerJoined ==
    /\ kpc = "close_listener"
    /\ ltask[kawait] = "done"
    /\ ClosePubsubStep([St EXCEPT !.listener_task = NoTask])
    /\ kawait' = NoTask
    /\ UNCHANGED <<lcancel, ncloses, conVars, pubVars, unsubVars, msgHist>>
    /\ History

\* pubsub.close() has returned: `self._pubsub = None`.
ClosePubsubDone ==
    /\ kpc = "close_pubsub"
    /\ CloseRedisStep([St EXCEPT !.pubsub = NoHandle])
    /\ UNCHANGED <<closedPubsub, lcancel, brokerSubs, inbox, kawait, ncloses,
                   conVars, pubVars, unsubVars, msgHist>>
    /\ History

\* redis.close() has returned: `self._redis = None`, then the clears.
CloseRedisDone ==
    /\ kpc = "close_redis"
    /\ CloseFinish([St EXCEPT !.redis = NoHandle])
    /\ UNCHANGED <<envVars, kawait, ncloses, conVars, pubVars, unsubVars, msgHist>>
    /\ History

\* ------------------------------------------------ RedisClusterChannel

ClSt ==
    [connected |-> cl_connected, keys |-> cl_keys, subs |-> cl_subs,
     listener |-> cl_listener, be_pubsub |-> be_pubsub,
     be_listener |-> be_listener, be_subscribed |-> be_subscribed,
     nconn |-> cl_nconn]

ClCommit(s) ==
    /\ cl_connected' = s.connected
    /\ cl_keys' = s.keys
    /\ cl_subs' = s.subs
    /\ cl_listener' = s.listener
    /\ be_pubsub' = s.be_pubsub
    /\ be_listener' = s.be_listener
    /\ be_subscribed' = s.be_subscribed
    /\ cl_nconn' = s.nconn

\* The history variables of the cluster channel that are functions of the step.
ClHistory ==
    /\ cl_atClose' = cl_atClose \cup
          {c \in Consumers : cl_pc[c] = "consuming" /\ cl_ncloses' # cl_ncloses}
    /\ cl_justClosed' = /\ cl_kpc' = "idle"
                        /\ cl_kpc # "idle" \/ cl_ncloses' # cl_ncloses
    /\ cl_foreign' = IF cl_nmsg' # cl_nmsg /\ cl_ppc = "idle" /\ cl_ppc' = "idle"
                     THEN cl_foreign \cup {cl_nmsg'} ELSE cl_foreign
    /\ cl_owed' = IF cl_ppc = "spub_await" /\ cl_pres' = "ok"
                  THEN [c \in Consumers |->
                          IF /\ cl_pc[c] = "consuming"
                             /\ cl_target[c] = cl_ptopic
                             /\ be_pubsub # NoHandle
                             /\ cl_ptopic \in cl_brokerSubs[be_pubsub]
                          THEN cl_owed[c] \cup {cl_nmsg} ELSE cl_owed[c]]
                  ELSE cl_owed
    /\ impl = "cluster"
    /\ UNCHANGED <<impl, redisVars>>

\* RedisClusterChannel._ensure_connected with RedisClusterBackend.connect: a
\* new sharded pubsub handle and both listener tasks; no await suspends.
ClEnsureConnected(s) ==
    IF s.connected THEN s
    ELSE [s EXCEPT !.be_pubsub = s.nconn + 1, !.nconn = s.nconn + 1,
                   !.be_listener = "alive", !.listener = "alive",
                   !.connected = TRUE]

ClCanConnect(s) == s.connected \/ s.nconn < MaxConn

\* The finally block of RedisClusterChannel.subscribe, up to its await of
\* backend.unsubscribe (which awaits only for a channel the backend records).
ClFinally(s, c, t, endpc) ==
    IF t \in s.keys
    THEN LET s1 == [s EXCEPT !.subs[t] = @ \ {c}] IN
         IF s1.subs[t] = {}
         THEN LET s2 == [s1 EXCEPT !.keys = @ \ {t}] IN
              IF s2.be_pubsub # NoHandle /\ t \in s2.be_subscribed
              THEN /\ ClCommit(s2)
                   /\ cl_pc' = [cl_pc EXCEPT ![c] = "sunsub_await"]
                   /\ cl_hnd' = [cl_hnd EXCEPT ![c] = s2.be_pubsub]
              ELSE /\ ClCommit(s2)
                   /\ cl_pc' = [cl_pc EXCEPT ![c] = endpc]
                   /\ cl_hnd' = [cl_hnd EXCEPT ![c] = NoHandle]
         ELSE /\ ClCommit(s1)
              /\ cl_pc' = [cl_pc EXCEPT ![c] = endpc]
              /\ cl_hnd' = [cl_hnd EXCEPT ![c] = NoHandle]
    ELSE /\ ClCommit(s)
         /\ cl_pc' = [cl_pc EXCEPT ![c] = endpc]
         /\ cl_hnd' = [cl_hnd EXCEPT ![c] = NoHandle]

\* subscribe(channel) up to its first suspension: SSUBSCRIBE when the dict has
\* no key for the channel, else straight into the loop.
ClSubscribeStart(c, t) ==
    /\ cl_pc[c] = "idle"
    /\ ClCanConnect(ClSt)
    /\ cl_target' = [cl_target EXCEPT ![c] = t]
    /\ LET s == ClEnsureConnected(ClSt) IN
       IF t \notin s.keys
       THEN /\ ClCommit(s)
            /\ cl_pc' = [cl_pc EXCEPT ![c] = "ssub_await"]
            /\ cl_hnd' = [cl_hnd EXCEPT ![c] = s.be_pubsub]
       ELSE /\ ClCommit([s EXCEPT !.subs[t] = @ \cup {c}])
            /\ cl_pc' = [cl_pc EXCEPT ![c] = "consuming"]
            /\ UNCHANGED cl_hnd
    /\ UNCHANGED <<clEnv, cl_queue, cl_recv, clPub, clClose, cl_teardowns>>
    /\ ClHistory

\* backend.subscribe returns: `self._subscribers[channel] = set()`, then the
\* queue is added.
ClSsubDone(c) ==
    /\ cl_pc[c] = "ssub_await"
    /\ cl_brokerSubs' = [cl_brokerSubs EXCEPT ![cl_hnd[c]] = @ \cup {cl_target[c]}]
    /\ ClCommit([ClSt EXCEPT !.be_subscribed = @ \cup {cl_target[c]},
                             !.keys = @ \cup {cl_target[c]},
                             !.subs[cl_target[c]] = {c}])
    /\ cl_pc' = [cl_pc EXCEPT ![c] = "consuming"]
    /\ cl_hnd' = [cl_hnd EXCEPT ![c] = NoHandle]
    /\ UNCHANGED <<be_queue, cl_inbox, cl_target, cl_queue, cl_recv, clPub,
                   clClose, cl_teardowns>>
    /\ ClHistory

\* backend.subscribe raises: the finally block runs, the error propagates.
ClSsubFail(c) ==
    /\ cl_pc[c] = "ssub_await"
    /\ ClFinally(ClSt, c, cl_target[c], "err_io")
    /\ UNCHANGED <<clEnv, cl_target, cl_queue, cl_recv, clPub, clClose, cl_teardowns>>
    /\ ClHistory

\* The consumer takes the next event; its body is parsed inside the
\* generator and yielded. An error the except clause names is logged and the
\* loop goes on; any other error leaves the generator through the finally
\* block and is raised to the consumer.
ClReceive(c) ==
    /\ cl_pc[c] = "consuming"
    /\ cl_queue[c] # <<>>
    /\ LET e == Head(cl_queue[c])
           err == ParseError(e.message) IN
       /\ cl_recv' = [cl_recv EXCEPT ![c] =
                         IF err = "none"
                         THEN Append(@, Decode(e.message, cl_target[c]))
                         ELSE @]
       /\ IF err \in Caught \cup {"none"}
          THEN UNCHANGED <<clChan, cl_pc, cl_hnd>>
          ELSE ClFinally(ClSt, c, cl_target[c], "err_decode")
    /\ cl_queue' = [cl_queue EXCEPT ![c] = Tail(@)]
    /\ UNCHANGED <<clEnv, cl_target, clPub, clClose, cl_teardowns>>
    /\ ClHistory

\* The consumer stops (CancelledError at queue.get(), or the generator is
\* closed at its yield): the finally block runs.
ClExit(c) ==
    /\ cl_pc[c] = "consuming"
    /\ ClFinally(ClSt, c, cl_target[c], "done")
    /\ UNCHANGED <<clEnv, cl_target, cl_queue, cl_recv, clPub, clClose, cl_teardowns>>
    /\ ClHistory

\* backend.unsubscribe returns: SUNSUBSCRIBE sent, the channel forgotten.
ClSunsubDone(c) ==
    /\ cl_pc[c] = "sunsub_await"
    /\ cl_brokerSubs' = [cl_brokerSubs EXCEPT ![cl_hnd[c]] = @ \ {cl_target[c]}]
    /\ be_subscribed' = be_subscribed \ {cl_target[c]}
    /\ cl_pc' = [cl_pc EXCEPT ![c] = "done"]
    /\ cl_hnd' = [cl_hnd EXCEPT ![c] = NoHandle]
    /\ UNCHANGED <<cl_connected, cl_keys, cl_subs, cl_listener, be_pubsub,
                   be_listener, cl_nconn, be_queue, cl_inbox, cl_target,
                   cl_queue, cl_recv, clPub, clClose, cl_teardowns>>
    /\ ClHistory

\* backend.unsubscribe raises: `except Exception: pass`.
ClSunsubFail(c) ==
    /\ cl_pc[c] = "sunsub_await"
    /\ cl_pc' = [cl_pc EXCEPT ![c] = "done"]
    /\ cl_hnd' = [cl_hnd EXCEPT ![c] = NoHandle]
    /\ UNCHANGED <<clChan, clEnv, cl_target, cl_queue, cl_recv, clPub, clClose,
                   cl_teardowns>>
    /\ ClHistory

\* CancelledError delivered at the await of backend.subscribe: the command may
\* or may not have reached the cluster, the backend does not record the
\* channel, the finally block runs and the error propagates.
ClCancelSetup(c) ==
    /\ cl_pc[c] = "ssub_await"
    /\ \/ cl_brokerSubs' = [cl_brokerSubs EXCEPT ![cl_hnd[c]] = @ \cup {cl_target[c]}]
       \/ UNCHANGED cl_brokerSubs
    /\ ClFinally(ClSt, c, cl_target[c], "cancelled")
    /\ UNCHANGED <<be_queue, cl_inbox, cl_target, cl_queue, cl_recv, clPub,
                   clClose, cl_teardowns>>
    /\ ClHistory

\* CancelledError delivered at the await of backend.unsubscribe in the finally
\* block: `except Exception` does not catch it; the command may or may not
\* have reached the cluster, the backend goes on recording the channel.
ClCancelCleanup(c) ==
    /\ cl_pc[c] = "sunsub_await"
    /\ \/ cl_brokerSubs' = [cl_brokerSubs EXCEPT ![cl_hnd[c]] = @ \ {cl_target[c]}]
       \/ UNCHANGED cl_brokerSubs
    /\ cl_pc' = [cl_pc EXCEPT ![c] = "cancelled"]
    /\ cl_hnd' = [cl_hnd EXCEPT ![c] = NoHandle]
    /\ UNCHANGED <<clChan, be_queue, cl_inbox, cl_target, cl_queue, cl_recv,
                   clPub, clClose, cl_teardowns>>
    /\ ClHistory

\* psubscribe(pattern) awaited: the coroutine runs and raises
\* NotImplementedError, touches nothing.
ClPsubscribe(c, p) ==
    /\ cl_pc[c] = "idle"
    /\ p \in Patterns
    /\ cl_pc' = [cl_pc EXCEPT ![c] = "err_notimpl"]
    /\ UNCHANGED <<clChan, clEnv, cl_target, cl_hnd, cl_queue, cl_recv, clPub,
                   clClose, cl_teardowns>>
    /\ ClHistory

\* psubscribe(pattern) iterated with `async for`, as the AsyncIterator it is
\* declared to return: the function has no yield, so the call gives a coroutine
\* and not an async generator; `async for` raises TypeError and the body, with
\* its raise, never runs.
ClPsubscribeIter(c, p) ==
    /\ cl_pc[c] = "idle"
    /\ p \in Patterns
    /\ cl_pc' = [cl_pc EXCEPT ![c] = "err_type"]
    /\ UNCHANGED <<clChan, clEnv, cl_target, cl_hnd, cl_queue, cl_recv, clPub,
                   clClose, cl_teardowns>>
    /\ ClHistory

\* RedisClusterBackend._listen_loop: one frame of the sharded pubsub becomes an
\* Event on the backend queue.
ClBackendListen ==
    /\ be_listener = "alive"
    /\ be_pubsub # NoHandle
    /\ cl_inbox[be_pubsub] # <<>>
    /\ LET f == Head(cl_inbox[be_pubsub]) IN
       be_queue' = IF f.type \in {"message", "smessage"}
                   THEN Append(be_queue, [channel |-> f.channel, message |-> f.data])
                   ELSE be_queue
    /\ cl_inbox' = [cl_inbox EXCEPT ![be_pubsub] = Tail(@)]
    /\ UNCHANGED <<clChan, cl_brokerSubs, clCon, clPub, clClose, cl_teardowns>>
    /\ ClHistory

\* RedisClusterChannel._listener: one Event is put on every queue registered
\* for its channel.
ClListen ==
    /\ cl_listener = "alive"
    /\ be_queue # <<>>
    /\ LET e == Head(be_queue) IN
       cl_queue' = [c \in Consumers |->
                      IF e.channel \in cl_keys /\ c \in cl_subs[e.channel]
                      THEN Append(cl_queue[c], e) ELSE cl_queue[c]]
    /\ be_queue' = Tail(be_queue)
    /\ UNCHANGED <<clChan, cl_brokerSubs, cl_inbox, cl_pc, cl_target, cl_hnd,
                   cl_recv, clPub, clClose, cl_teardowns>>
    /\ ClHistory

\* publish() up to its await of SPUBLISH.
ClPublishStart(t) ==
    /\ cl_ppc = "idle"
    /\ cl_nmsg < MaxMsgs
    /\ ClCanConnect(ClSt)
    /\ ClCommit(ClEnsureConnected(ClSt))
    /\ cl_ppc' = "spub_await"
    /\ cl_ptopic' = t
    /\ cl_nmsg' = cl_nmsg + 1
    /\ cl_pres' = "none"
    /\ UNCHANGED <<clEnv, clCon, clClose, cl_teardowns>>
    /\ ClHistory

\* SPUBLISH returns: the cluster pushes the message on the sharded pubsub
\* handle that is subscribed to the topic.
ClPublishDone ==
    /\ cl_ppc = "spub_await"
    /\ cl_inbox' = [h \in Handles |->
                      IF h = be_pubsub /\ cl_ptopic \in cl_brokerSubs[h]
                      THEN Append(cl_inbox[h],
                                  [type |-> "smessage", channel |-> cl_ptopic,
                                   pattern |-> "",
                                   data |-> Encode(cl_nmsg, cl_ptopic)])
                      ELSE cl_inbox[h]]
    /\ cl_ppc' = "idle"
    /\ cl_ptopic' = ""
    /\ cl_pres' = "ok"
    /\ UNCHANGED <<clChan, be_queue, cl_brokerSubs, clCon, cl_nmsg, clClose, cl_teardowns>>
    /\ ClHistory

\* SPUBLISH raises: the error propagates to the caller.
ClPublishFail ==
    /\ cl_ppc = "spub_await"
    /\ cl_ppc' = "idle"
    /\ cl_ptopic' = ""
    /\ cl_pres' = "err_io"
    /\ UNCHANGED <<clChan, clEnv, clCon, cl_nmsg, clClose, cl_teardowns>>
    /\ ClHistory

\* Another client of the cluster publishes on topic t a body that is no
\* envelope, or an envelope without a channel field: the cluster pushes it
\* like any other message.
ClForeignPublish(t, shape) ==
    /\ cl_ppc = "idle"
    /\ cl_nmsg < MaxMsgs
    /\ shape \in Shapes \cup {"envelope"}
    /\ cl_nmsg' = cl_nmsg + 1
    /\ cl_inbox' = [h \in Handles |->
                      IF h = be_pubsub /\ t \in cl_brokerSubs[h]
                      THEN Append(cl_inbox[h],
                                  [type |-> "smessage", channel |-> t,
                                   pattern |-> "",
                                   data |-> IF shape = "envelope"
                                            THEN Bare(cl_nmsg + 1)
                                            ELSE Malformed(cl_nmsg + 1, t, shape)])
                      ELSE cl_inbox[h]]
    /\ UNCHANGED <<clChan, be_queue, cl_brokerSubs, clCon, cl_ppc, cl_ptopic,
                   cl_pres, clClose, cl_teardowns>>
    /\ ClHistory

\* close() up to its first await: nothing unless _connected; else the channel
\* listener is cancelled and backend.disconnect cancels and awaits its own.
ClCloseStart ==
    /\ cl_kpc = "idle"
    /\ cl_ncloses < MaxCloses
    /\ cl_ncloses' = cl_ncloses + 1
    /\ IF cl_connected
       THEN /\ cl_listener' = IF cl_listener = "none" THEN "none" ELSE "cancelled"
            /\ be_listener' = IF be_listener = "none" THEN "none" ELSE "done"
            /\ cl_kpc' = "disc_join"
            /\ cl_teardowns' = cl_teardowns + 1
            /\ UNCHANGED cl_kres
       ELSE /\ cl_kres' = "ok"
            /\ UNCHANGED <<cl_listener, be_listener, cl_kpc, cl_teardowns>>
    /\ UNCHANGED <<cl_connected, cl_keys, cl_subs, be_pubsub, be_subscribed,
                   cl_nconn, clEnv, clCon, clPub>>
    /\ ClHistory

\* The backend listener has ended: `await self._pubsub.sunsubscribe()`.
ClCloseJoined ==
    /\ cl_kpc = "disc_join"
    /\ cl_kpc' = "disc_sunsub"
    /\ cl_teardowns' = cl_teardowns + 1
    /\ UNCHANGED <<clChan, clEnv, clCon, clPub, cl_ncloses, cl_kres>>
    /\ ClHistory

\* SUNSUBSCRIBE of everything returns: `await self._client.close()`.
ClCloseSunsubDone ==
    /\ cl_kpc = "disc_sunsub"
    /\ cl_brokerSubs' = [cl_brokerSubs EXCEPT ![be_pubsub] = {}]
    /\ cl_kpc' = "disc_close"
    /\ cl_teardowns' = cl_teardowns + 1
    /\ UNCHANGED <<clChan, be_queue, cl_inbox, clCon, clPub, cl_ncloses, cl_kres>>
    /\ ClHistory

\* client.close() returns: disconnect() is over, close() marks the channel not
\* connected and clears the dict.
ClCloseDone ==
    /\ cl_kpc = "disc_close"
    /\ ClCommit([ClSt EXCEPT !.connected = FALSE, !.keys = {},
                             !.subs = [t \in Topics |-> {}]])
    /\ cl_inbox' = [cl_inbox EXCEPT ![be_pubsub] = <<>>]
    /\ cl_kpc' = "idle"
    /\ cl_kres' = "ok"
    /\ UNCHANGED <<be_queue, cl_brokerSubs, clCon, clPub, cl_ncloses, cl_teardowns>>
    /\ ClHistory

\* SUNSUBSCRIBE or client.close() raises: nothing in disconnect() or close()
\* catches it, close() ends there with _connected still set.
ClCloseFail ==
    /\ cl_kpc \in {"disc_sunsub", "disc_close"}
    /\ cl_kpc' = "idle"
    /\ cl_kres' = "error"
    /\ UNCHANGED <<clChan, clEnv, clCon, clPub, cl_ncloses, cl_teardowns>>
    /\ ClHistory

\* ------------------------------------------------------ specifications

InitChannel ==
    /\ connected = FALSE
    /\ redis = NoHandle
    /\ pubsub = NoHandle
    /\ listener_task = NoTask
    /\ subscribers = [t \in Topics |-> {}]
    /\ pattern_subscribers = [p \in Patterns |-> {}]
    /\ lockHolder = "none"
    /\ lockWaiters = <<>>
    /\ subscribed_channels = {}
    /\ subscribed_patterns = {}
    /\ nconn = 0
    /\ closedRedis = {}
    /\ closedPubsub = {}
    /\ nlisten = 0
    /\ ltask = [l \in Listeners |-> "none"]
    /\ lcancel = {}
    /\ brokerSubs = [h \in Handles |-> {}]
    /\ inbox = [h \in Handles |-> <<>>]
    /\ pc = [c \in Consumers |-> "idle"]
    /\ kind = [c \in Consumers |-> "topic"]
    /\ target = [c \in Consumers |-> "a"]
    /\ hnd = [c \in Consumers |-> NoHandle]
    /\ queue = [c \in Consumers |-> <<>>]
    /\ recv = [c \in Consumers |-> <<>>]
    /\ ppc = "idle"
    /\ ptopic = ""
    /\ phnd = NoHandle
    /\ nmsg = 0
    /\ upc = "idle"
    /\ utopic = ""
    /\ uhnd = NoHandle
    /\ kpc = "idle"
    /\ kawait = NoTask
    /\ ncloses = 0
    /\ pres = "none"
    /\ owed = [c \in Consumers |-> {}]
    /\ dropped = [c \in Consumers |-> {}]
    /\ nsub = [x \in Targets |-> 0]
    /\ nunsub = [x \in Targets |-> 0]
    /\ atClose = {}
    /\ overlap = {}
    /\ justClosed = FALSE
    /\ alone = TRUE
    /\ foreign = [c \in Consumers |-> {}]
    /\ cl_connected = FALSE
    /\ cl_keys = {}
    /\ cl_subs = [t \in Topics |-> {}]
    /\ cl_listener = "none"
    /\ be_pubsub = NoHandle
    /\ be_listener = "none"
    /\ be_subscribed = {}
    /\ be_queue = <<>>
    /\ cl_nconn = 0
    /\ cl_brokerSubs = [h \in Handles |-> {}]
    /\ cl_inbox = [h \in Handles |-> <<>>]
    /\ cl_pc = [c \in Consumers |-> "idle"]
    /\ cl_target = [c \in Consumers |-> "a"]
    /\ cl_hnd = [c \in Consumers |-> NoHandle]
    /\ cl_queue = [c \in Consumers |-> <<>>]
    /\ cl_recv = [c \in Consumers |-> <<>>]
    /\ cl_ppc = "idle"
    /\ cl_ptopic = ""
    /\ cl_nmsg = 0
    /\ cl_pres = "none"
    /\ cl_kpc = "idle"
    /\ cl_ncloses = 0
    /\ cl_kres = "none"
    /\ cl_atClose = {}
    /\ cl_justClosed = FALSE
    /\ cl_foreign = {}
    /\ cl_owed = [c \in Consumers |-> {}]
    /\ cl_teardowns = 0

vars == <<impl, redisVars, clusterVars>>

\* A RedisChannel, freshly constructed.
Init ==
    /\ impl = "redis"
    /\ InitChannel

\* Either backend, freshly constructed.
InitCluster ==
    /\ InitChannel
    /\ impl = "cluster"

InitAny ==
    /\ impl \in {"redis", "cluster"}
    /\ InitChannel

\* Steady operation of a RedisChannel: two consumers subscribe to topics,
\* the listener dispatches what the publisher sends, consumers stop by
\* themselves. No close(), no unsubscribe(), no cancellation.
Next ==
    \/ \E c \in {"c1", "c2"} : \E t \in Topics : SubscribeStart(c, "topic", t)
    \/ \E c \in {"c1", "c2"} : SetupGotLock(c)
    \/ \E c \in {"c1", "c2"} : SetupSubDone(c)
    \/ \E c \in {"c1", "c2"} : Receive(c)
    \/ \E c \in {"c1", "c2"} : Exit(c)
    \/ \E c \in {"c1", "c2"} : CleanGotLock(c)
    \/ \E c \in {"c1", "c2"} : CleanUnsubDone(c)
    \/ \E l \in Listeners : ListenerRun(l)
    \/ \E l \in Listeners : ListenerGet(l)
    \/ \E l \in Listeners : ListenerError(l)
    \/ \E l \in Listeners : ListenerWake(l)
    \/ \E t \in Topics : PublishStart(t)
    \/ PublishDone
    \/ PublishFail

Spec == Init /\ [][Next]_vars

\* Reference counting: three consumers subscribe to topics and patterns and
\* stop, contending for the lock; every broker call succeeds.
NextRefcount ==
    \/ \E c \in Consumers : \E t \in Topics : SubscribeStart(c, "topic", t)
    \/ \E c \in Consumers : \E q \in Patterns : SubscribeStart(c, "pattern", q)
    \/ \E c \in Consumers : SetupGotLock(c)
    \/ \E c \in Consumers : SetupSubDone(c)
    \/ \E c \in Consumers : Exit(c)
    \/ \E c \in Consumers : CleanGotLock(c)
    \/ \E c \in Consumers : CleanUnsubDone(c)
    \/ \E l \in Listeners : ListenerRun(l)

SpecRefcount == Init /\ [][NextRefcount]_vars

\* Explicit unsubscribe(): two consumers of topic "a", a publisher and calls
\* of unsubscribe("a"); every broker call succeeds.
NextUnsub ==
    \/ \E c \in {"c1", "c2"} : SubscribeStart(c, "topic", "a")
    \/ \E c \in {"c1", "c2"} : SetupGotLock(c)
    \/ \E c \in {"c1", "c2"} : SetupSubDone(c)
    \/ \E c \in {"c1", "c2"} : Receive(c)
    \/ \E c \in {"c1", "c2"} : Exit(c)
    \/ \E c \in {"c1", "c2"} : CleanGotLock(c)
    \/ \E c \in {"c1", "c2"} : CleanUnsubDone(c)
    \/ \E l \in Listeners : ListenerRun(l)
    \/ \E l \in Listeners : ListenerGet(l)
    \/ PublishStart("a")
    \/ PublishDone
    \/ UnsubscribeStart("a")
    \/ UnsubscribeGotLock
    \/ UnsubscribeDone

SpecUnsub == Init /\ [][NextUnsub]_vars

\* Cancellation: three consumers subscribe and stop; the caller may cancel a
\* consumer at any await of the setup and of the cleanup; queues of ended
\* generators are collected.
NextCancel ==
    \/ \E c \in Consumers : \E t \in Topics : SubscribeStart(c, "topic", t)
    \/ \E c \in Consumers : SetupGotLock(c)
    \/ \E c \in Consumers : SetupSubDone(c)
    \/ \E c \in Consumers : Exit(c)
    \/ \E c \in Consumers : CleanGotLock(c)
    \/ \E c \in Consumers : CleanUnsubDone(c)
    \/ \E c \in Consumers : CancelSetup(c)
    \/ \E c \in Consumers : CancelCleanup(c)
    \/ \E c \in Consumers : Collect(c)
    \/ \E l \in Listeners : ListenerRun(l)

SpecCancel == Init /\ [][NextCancel]_vars

\* Shutdown of either backend: one consumer of topic "a", a publisher, the
\* listener and calls of close().
NextClose ==
    \/ SubscribeStart("c1", "topic", "a")
    \/ SetupSubDone("c1")
    \/ SetupSubFail("c1")
    \/ Receive("c1")
    \/ Exit("c1")
    \/ CleanUnsubDone("c1")
    \/ CleanUnsubFail("c1")
    \/ \E l \in Listeners : ListenerRun(l)
    \/ \E l \in Listeners : ListenerGet(l)
    \/ \E l \in Listeners : ListenerError(l)
    \/ \E l \in Listeners : ListenerWake(l)
    \/ \E l \in Listeners : ListenerCancelled(l)
    \/ PublishStart("a")
    \/ PublishDone
    \/ PublishFail
    \/ CloseStart
    \/ CloseListenerJoined
    \/ ClosePubsubDone
    \/ CloseRedisDone
    \/ ClSubscribeStart("c1", "a")
    \/ ClSsubDone("c1")
    \/ ClSsubFail("c1")
    \/ ClReceive("c1")
    \/ ClExit("c1")
    \/ ClSunsubDone("c1")
    \/ ClSunsubFail("c1")
    \/ ClPsubscribe("c2", "a*")
    \/ ClPsubscribeIter("c2", "a*")
    \/ ClBackendListen
    \/ ClListen
    \/ ClPublishStart("a")
    \/ ClPublishDone
    \/ ClPublishFail
    \/ ClCloseStart
    \/ ClCloseJoined
    \/ ClCloseSunsubDone
    \/ ClCloseDone
    \/ ClCloseFail

SpecClose == InitAny /\ [][NextClose]_vars

\* ------------------------------------------------------------ properties

\* What consumer c has been handed so far, oldest first: the messages its
\* generator yielded, then those waiting in its queue.
Got(c) == recv[c] \o queue[c]

\* The frames for topic t still unread on pubsub handle h, as message ids.
Unread(h, t) ==
    IF h = NoHandle THEN <<>>
    ELSE SelectSeq(inbox[h], LAMBDA f : f.type = "message" /\ f.channel = t)

Times(seq, id) == Cardinality({i \in DOMAIN seq : seq[i].id = id})

TimesUnread(h, t, id) ==
    Cardinality({i \in DOMAIN Unread(h, t) : Unread(h, t)[i].data.id = id})

Increasing(seq) ==
    \A i, j \in DOMAIN seq : i < j => seq[i].id < seq[j].id

C2_RegisteredConsumerMissesNothing ==
    \A c \in Consumers :
        (pc[c] = "consuming" /\ kind[c] = "topic") =>
            \A m \in owed[c] \ dropped[c] :
                Times(Got(c), m) + TimesUnread(pubsub, target[c], m) >= 1

\* No setup, cleanup, unsubscribe() or close() is part-way through.
Quiescent ==
    /\ \A c \in Consumers :
           pc[c] \notin {"setup_lock", "setup_sub", "clean_lock", "clean_unsub"}
    /\ upc = "idle"
    /\ kpc = "idle"

\* The broker has a SUBSCRIBE / PSUBSCRIBE for target x in effect on the
\* channel's pubsub connection.
InEffect(x) ==
    /\ pubsub # NoHandle
    /\ pubsub \notin closedPubsub
    /\ x \in brokerSubs[pubsub]

\* C3: in every quiescent state, a topic or pattern has a broker-side
\* subscription in effect if and only if its registration set is non-empty.
C3_BrokerSubscriptionIffRegistered ==
    Quiescent =>
        \A x \in Targets : InEffect(x) <=> Table(St, x[1])[x[2]] # {}

\* The consumers that subscribed to target x.
Members(x) ==
    {c \in Consumers : pc[c] # "idle" /\ <<kind[c], target[c]>> = x}

\* C4: however the consumers of a target stop and their cleanups interleave,
\* UNSUBSCRIBE is never issued while a consumer in its loop is still
\* registered, it is issued once per SUBSCRIBE and not once per consumer, and
\* when all of them have stopped it has been issued and the target is no
\* longer subscribed.
C4_UnsubscribeOncePerTarget ==
    \A x \in Targets :
        /\ nunsub[x] <= nsub[x]
        /\ nsub[x] <= nunsub[x] + 1
        /\ \A c \in Members(x) :
               pc[c] = "clean_unsub" =>
                   \A d \in Table(St, x[1])[x[2]] : pc[d] # "consuming"
        /\ (\A c \in Members(x) : pc[c] = "done") =>
               /\ nunsub[x] = nsub[x]
               /\ x[2] \notin Subscribed(St, x[1])
               /\ ~InEffect(x)

\* Three consumers of topic "a" have all stopped: one SUBSCRIBE, one
\* UNSUBSCRIBE.
C4_Witness ==
    /\ \A c \in Consumers : pc[c] = "done" /\ kind[c] = "topic" /\ target[c] = "a"
    /\ nsub[<<"topic", "a">>] = 1
    /\ nunsub[<<"topic", "a">>] = 1

\* C5: once a cancelled consumer's generator has ended and its queue is gone
\* from the registration set of its target T, and no other consumer is setting
\* up or cleaning up, an empty registration set of T means T is no longer
\* recorded as subscribed.
C5_CancelAlwaysCleansUp ==
    \A c \in Consumers :
        LET k == kind[c]
            t == target[c] IN
        (/\ pc[c] = "cancelled"
         /\ Quiescent
         /\ Table(St, k)[t] = {}) => t \notin Subscribed(St, k)

\* A consumer of the RedisChannel that nothing can wake any more: it waits on
\* an empty queue that is in no registration set.
Stranded(c) ==
    /\ pc[c] = "consuming"
    /\ queue[c] = <<>>
    /\ c \notin Table(St, kind[c])[target[c]]

\* The same for a consumer of the RedisClusterChannel.
ClStranded(c) ==
    /\ cl_pc[c] = "consuming"
    /\ cl_queue[c] = <<>>
    /\ cl_target[c] \notin cl_keys \/ c \notin cl_subs[cl_target[c]]

\* C6: once close() has returned, no consumer that was waiting for its next
\* message when close() was called is left waiting with nothing that can end
\* its wait: its iteration has terminated, or is about to.
C6_CloseEndsBlockedConsumers ==
    /\ kpc = "idle" => \A c \in atClose : ~Stranded(c)
    /\ (cl_kpc = "idle" /\ cl_kres = "ok") => \A c \in cl_atClose : ~ClStranded(c)

\* C7: a subscribe() call that was in flight while close() ran and went on
\* into its consumption loop is either registered with a live subscription, or
\* left nothing behind that close() would have cleared (as if it had run
\* before close); otherwise it ended with an error.
C7_InFlightSubscribeCleanOutcome ==
    kpc = "idle" =>
        \A c \in overlap :
            pc[c] = "consuming" =>
                \/ /\ c \in Table(St, kind[c])[target[c]]
                   /\ target[c] \in Subscribed(St, kind[c])
                   /\ InEffect(<<kind[c], target[c]>>)
                \/ /\ c \notin Table(St, kind[c])[target[c]]
                   /\ target[c] \notin Subscribed(St, kind[c])

\* C8: after close() has returned, no publish() fails before its broker write
\* with RuntimeError("Redis not connected"), whatever was in flight while
\* close() ran.
C8_PublishAfterCloseReconnects ==
    [][(kpc = "idle" /\ ncloses > 0 /\ ppc = "idle" /\ pres' # pres)
          => pres' # "err_runtime"]_vars

\* The statement of C9 as the specification has it: after a close() has
\* completed, no operation starts broker I/O.
C9_ClosedErrorAfterClose ==
    [][/\ (kpc = "idle" /\ ncloses > 0) =>
            /\ ppc = "idle" => ppc' # "pub_await"
            /\ \A c \in Consumers : pc[c] = "idle" => pc'[c] # "setup_sub"
       /\ (cl_kpc = "idle" /\ cl_ncloses > 0 /\ cl_kres = "ok") =>
            /\ cl_ppc = "idle" => cl_ppc' # "spub_await"
            /\ \A c \in Consumers : cl_pc[c] = "idle" => cl_pc'[c] # "ssub_await"
      ]_vars

\* C9 (amended): no operation attempted after a completed close() fails with
\* a closed error. publish and subscribe call _ensure_connected, which opens a
\* new connection when the channel is marked not connected, and go on to their
\* broker I/O; the only failures before any I/O are RuntimeError when the
\* RedisChannel is marked connected without a client or pubsub handle, and
\* NotImplementedError (TypeError when iterated) of the cluster psubscribe.
C9_OperationAfterCloseReconnects ==
    [][/\ (kpc = "idle" /\ ncloses > 0 /\ ppc = "idle"
              /\ (ppc' # ppc \/ pres' # pres)) =>
            IF connected /\ redis = NoHandle
            THEN pres' = "err_runtime" /\ ppc' = "idle"
            ELSE /\ ppc' = "pub_await"
                 /\ connected' /\ phnd' = redis' /\ redis' # NoHandle
                 /\ ~connected => (nconn' = nconn + 1 /\ redis' \notin closedRedis)
       /\ \A c \in Consumers :
            (kpc = "idle" /\ ncloses > 0 /\ pc[c] = "idle" /\ pc'[c] # "idle") =>
                IF connected /\ pubsub = NoHandle
                THEN pc'[c] = "err_runtime"
                ELSE /\ connected' /\ pubsub' # NoHandle
                     /\ ~connected => (nconn' = nconn + 1
                                        /\ pubsub' \notin closedPubsub)
                     /\ \/ pc'[c] = "setup_sub" /\ hnd'[c] = pubsub'
                        \/ pc'[c] = "setup_lock"
                        \/ /\ pc'[c] = "consuming"
                           /\ target'[c] \in Subscribed(St, kind'[c])
       /\ (cl_kpc = "idle" /\ cl_ncloses > 0 /\ cl_kres = "ok"
              /\ cl_ppc = "idle" /\ cl_ppc' # cl_ppc) =>
            /\ cl_ppc' = "spub_await"
            /\ cl_connected'
            /\ ~cl_connected => cl_nconn' = cl_nconn + 1
       /\ \A c \in Consumers :
            (cl_kpc = "idle" /\ cl_ncloses > 0 /\ cl_kres = "ok"
                /\ cl_pc[c] = "idle" /\ cl_pc'[c] # "idle") =>
                \/ cl_pc'[c] \in {"err_notimpl", "err_type"} /\ UNCHANGED clChan
                \/ /\ cl_connected'
                   /\ ~cl_connected => cl_nconn' = cl_nconn + 1
                   /\ \/ cl_pc'[c] = "ssub_await" /\ cl_hnd'[c] = be_pubsub'
                      \/ cl_pc'[c] = "consuming" /\ cl_target'[c] \in cl_keys
      ]_vars

\* The first connection was closed by a completed close(); a publish is now
\* writing on a second one.
C9_Witness ==
    /\ kpc = "idle" /\ ncloses > 0
    /\ closedRedis = {1} /\ closedPubsub = {1}
    /\ connected /\ redis = 2 /\ pubsub = 2
    /\ ppc = "pub_await" /\ phnd = 2

\* C10: a close() called right after a close() has ended finds the first one
\* ended without error, ends without error itself, and performs no teardown
\* action: no listener cancel, no handle close, no connection close, no broker
\* unsubscribe; the channel state stays as the first call left it.
C10_SecondCloseDoesNothing ==
    [][/\ (justClosed /\ ncloses' # ncloses) =>
            /\ kpc' = "idle"
            /\ UNCHANGED <<chanVars, envVars>>
       /\ (cl_justClosed /\ cl_ncloses' # cl_ncloses) =>
            /\ cl_kres = "ok"
            /\ cl_kres' = "ok"
            /\ cl_kpc' = "idle"
            /\ cl_teardowns' = cl_teardowns
            /\ UNCHANGED <<clChan, clEnv>>
      ]_vars

\* --------------------------------------------------------- C11 .. C20

\* Shutdown of a busy RedisChannel: two consumers of topic "a" (one may hold
\* the lock while it awaits the broker), a publisher, the listener in every
\* phase, and calls of close().
NextCloseLive ==
    \/ \E c \in {"c1", "c2"} : SubscribeStart(c, "topic", "a")
    \/ \E c \in {"c1", "c2"} : SetupGotLock(c)
    \/ \E c \in {"c1", "c2"} : SetupSubDone(c)
    \/ \E l \in Listeners : ListenerRun(l)
    \/ \E l \in Listeners : ListenerGet(l)
    \/ \E l \in Listeners : ListenerError(l)
    \/ \E l \in Listeners : ListenerWake(l)
    \/ \E l \in Listeners : ListenerCancelled(l)
    \/ PublishStart("a")
    \/ PublishDone
    \/ CloseStart
    \/ CloseListenerJoined
    \/ ClosePubsubDone
    \/ CloseRedisDone

\* The event loop runs a cancelled listener, and the two library close()
\* calls return; nothing is assumed about consumers, the lock or subscribes.
FairClose ==
    /\ \A l \in Listeners : WF_vars(ListenerCancelled(l))
    /\ WF_vars(CloseListenerJoined)
    /\ WF_vars(ClosePubsubDone)
    /\ WF_vars(CloseRedisDone)

SpecCloseLive == Init /\ [][NextCloseLive]_vars /\ FairClose

\* C11: a close() that has started always returns, whatever consumers are
\* blocked on their queues, whoever holds the subscription lock and whatever
\* the listener is doing.
C11_CloseAlwaysReturns == (kpc # "idle") ~> (kpc = "idle")

\* close() has just returned while one consumer is blocked on its queue and
\* another still holds the lock, awaiting the broker.
C11_Witness ==
    /\ justClosed
    /\ \E c \in Consumers : pc[c] = "consuming"
    /\ \E c \in Consumers : pc[c] = "setup_sub" /\ lockHolder = c

\* The listener l is about to dispatch the next frame of the connection.
ReadyToDispatch(l) ==
    /\ ltask[l] = "reading"
    /\ l \notin lcancel
    /\ pubsub # NoHandle
    /\ pubsub \notin closedPubsub
    /\ inbox[pubsub] # <<>>

\* C12: a consumer whose queue is full loses the further messages itself and
\* nobody else does: every other consumer of the topic still gets each message
\* exactly once, a message dropped for a consumer never reaches it, and the
\* dispatch of the next frame is never held up by a full queue.
C12_SlowConsumerIsolated ==
    /\ \A c \in Consumers :
           (pc[c] = "consuming" /\ kind[c] = "topic") =>
               \A m \in owed[c] \ dropped[c] :
                   Times(Got(c), m) + TimesUnread(pubsub, target[c], m) = 1
    /\ \A c \in Consumers : \A m \in dropped[c] : Times(Got(c), m) = 0
    /\ \A l \in Listeners : ReadyToDispatch(l) => ENABLED ListenerGet(l)

\* A consumed both messages; B, on the same topic, never consumed: its queue
\* holds the first and the second was dropped for it.
C12_Witness ==
    /\ pc["c1"] = "consuming" /\ pc["c2"] = "consuming"
    /\ target["c1"] = target["c2"]
    /\ Len(recv["c1"]) = 2 /\ dropped["c1"] = {}
    /\ recv["c2"] = <<>> /\ Len(queue["c2"]) = QueueMaxsize
    /\ dropped["c2"] = {2}

\* Pattern subscriptions next to topic subscriptions: two consumers subscribe
\* to topics or to the pattern, messages are published on both topics, the
\* consumers stop by themselves.
NextPattern ==
    \/ \E c \in {"c1", "c2"} : \E t \in Topics : SubscribeStart(c, "topic", t)
    \/ \E c \in {"c1", "c2"} : \E q \in Patterns : SubscribeStart(c, "pattern", q)
    \/ \E c \in {"c1", "c2"} : SetupGotLock(c)
    \/ \E c \in {"c1", "c2"} : SetupSubDone(c)
    \/ \E c \in {"c1", "c2"} : Receive(c)
    \/ \E c \in {"c1", "c2"} : Exit(c)
    \/ \E c \in {"c1", "c2"} : CleanGotLock(c)
    \/ \E c \in {"c1", "c2"} : CleanUnsubDone(c)
    \/ \E l \in Listeners : ListenerRun(l)
    \/ \E l \in Listeners : ListenerGet(l)
    \/ \E t \in Topics : PublishStart(t)
    \/ PublishDone

SpecPattern == Init /\ [][NextPattern]_vars

\* The pattern-match frames for pattern q still unread on pubsub handle h.
UnreadPattern(h, q) ==
    IF h = NoHandle THEN <<>>
    ELSE SelectSeq(inbox[h], LAMBDA f : f.type = "pmessage" /\ f.pattern = q)

TimesUnreadPattern(h, q, id) ==
    Cardinality({i \in DOMAIN UnreadPattern(h, q) :
                    UnreadPattern(h, q)[i].data.id = id})

\* C13: a consumer registered through psubscribe(P) gets a message exactly
\* when the broker matched its topic against P, once, from the pattern frame,
\* and with the concrete topic as channel; it never gets a message of a topic
\* P does not match; a topic consumer gets only messages of its own topic and
\* no second copy from a pattern frame.
C13_PatternRouting ==
    \A c \in Consumers :
        pc[c] = "consuming" =>
            /\ \A m \in 1..MaxMsgs : Times(Got(c), m) <= 1
            /\ kind[c] = "pattern" =>
                 /\ \A i \in DOMAIN Got(c) :
                        /\ Matches(target[c], Got(c)[i].channel)
                        /\ Got(c)[i].channel \in Topics
                 /\ \A m \in owed[c] \ dropped[c] :
                        Times(Got(c), m)
                          + TimesUnreadPattern(pubsub, target[c], m) = 1
            /\ kind[c] = "topic" =>
                 /\ \A i \in DOMAIN Got(c) : Got(c)[i].channel = target[c]
                 /\ \A m \in owed[c] \ dropped[c] :
                        Times(Got(c), m) + TimesUnread(pubsub, target[c], m) = 1

\* The pattern consumer c1 and the topic consumer c2 of "a" were each handed
\* message 2, published on "a", once; message 1, published on "b", was
\* handed to neither.
C13_Witness ==
    /\ pc["c1"] = "consuming" /\ kind["c1"] = "pattern"
    /\ pc["c2"] = "consuming" /\ kind["c2"] = "topic" /\ target["c2"] = "a"
    /\ nmsg = 2
    /\ Len(recv["c1"]) = 1 /\ recv["c1"][1].id = 2 /\ recv["c1"][1].channel = "a"
    /\ recv["c2"] = recv["c1"]
    /\ queue["c1"] = <<>> /\ queue["c2"] = <<>>
    /\ inbox[pubsub] = <<>>

\* C14: psubscribe on the cluster channel fails with the not-supported error
\* (NotImplementedError) in every state of the channel, and leaves the
\* connected flag, the subscriber table, the listener task and the broker
\* side untouched.
C14_ClusterPsubscribeNotSupported ==
    [][\A c \in Consumers :
          (cl_pc[c] = "idle" /\ cl_pc'[c] \in {"err_notimpl", "err_type"}) =>
              /\ cl_pc'[c] = "err_notimpl"
              /\ UNCHANGED <<clChan, clEnv>>
      ]_vars

\* The statement of C15 as the specification has it: whatever a topic consumer
\* is handed has the data, event, id and timestamp of the message that was
\* published, and the topic as channel.
C15_EnvelopePreserved ==
    \A c \in Consumers :
        (pc[c] = "consuming" /\ kind[c] = "topic") =>
            \A i \in DOMAIN Got(c) :
                LET r == Got(c)[i]
                    m == Message(r.id) IN
                /\ r.channel = target[c]
                /\ r.event = m.event
                /\ r.timestamp = m.timestamp
                /\ r.data = m.data

\* C15 (amended): whatever a topic consumer is handed has the event, id and
\* timestamp of the message that was published, the topic as channel whatever
\* channel the caller had set, and as data the published data after a JSON
\* round trip: the same value for a dict or a list, a list for a tuple.
C15_EnvelopePreservedUpToJson ==
    \A c \in Consumers :
        (pc[c] = "consuming" /\ kind[c] = "topic") =>
            \A i \in DOMAIN Got(c) :
                LET r == Got(c)[i]
                    m == Message(r.id) IN
                /\ r.channel = target[c]
                /\ r.event = m.event
                /\ r.timestamp = m.timestamp
                /\ r.data = JsonLoads(JsonDumps(m.data))
                /\ m.data \in {"dict", "list"} => r.data = m.data
                /\ m.data = "tuple" => r.data = "list"

\* A consumer of topic "a" was handed message 1 (a dict, no channel set) and
\* message 2 (a tuple, channel set to "b" by the caller).
C15_Witness ==
    /\ pc["c1"] = "consuming" /\ target["c1"] = "a"
    /\ Len(recv["c1"]) = 2
    /\ recv["c1"][1].data = "dict" /\ recv["c1"][1].channel = "a"
    /\ recv["c1"][2].data = "list" /\ recv["c1"][2].channel = "a"
    /\ Message(2).channel = "b" /\ Message(2).data = "tuple"

\* Frames that are no envelope: two consumers subscribe to topics, the channel
\* publishes, and another client of the broker publishes bodies of every
\* malformed shape on the same topics.
NextDecode ==
    \/ \E c \in {"c1", "c2"} : \E t \in Topics : SubscribeStart(c, "topic", t)
    \/ \E c \in {"c1", "c2"} : SetupGotLock(c)
    \/ \E c \in {"c1", "c2"} : SetupSubDone(c)
    \/ \E c \in {"c1", "c2"} : Receive(c)
    \/ \E l \in Listeners : ListenerRun(l)
    \/ \E l \in Listeners : ListenerGet(l)
    \/ \E l \in Listeners : ListenerWake(l)
    \/ \E t \in Topics : PublishStart(t)
    \/ PublishDone
    \/ \E t \in Topics : \E sh \in Shapes : ForeignPublish(t, sh)

SpecDecode == Init /\ [][NextDecode]_vars

\* C16: a frame whose body is no envelope reaches no consumer, as a message
\* or as an error; the consumers stay registered and in their loop, the
\* listener task stays alive and goes on reading, and every well-formed
\* message of the topic still reaches each registered consumer exactly once.
C16_MalformedFrameDropped ==
    /\ \A c \in Consumers :
           /\ \A m \in foreign[c] : Times(Got(c), m) = 0
           /\ pc[c] \in {"idle", "setup_lock", "setup_sub", "consuming"}
           /\ pc[c] = "consuming" =>
                  /\ c \in Table(St, kind[c])[target[c]]
                  /\ \A m \in owed[c] \ dropped[c] :
                         Times(Got(c), m) + TimesUnread(pubsub, target[c], m) = 1
    /\ listener_task # NoTask =>
           /\ Live(listener_task)
           /\ ltask[listener_task] = "sleeping" => ENABLED ListenerWake(listener_task)
           /\ ReadyToDispatch(listener_task) => ENABLED ListenerGet(listener_task)

\* Both consumers of a topic were sent a malformed frame and then a
\* well-formed message: the frame is gone from the connection and each was
\* handed the message and nothing else.
C16_Witness ==
    /\ pc["c1"] = "consuming" /\ pc["c2"] = "consuming"
    /\ target["c1"] = target["c2"]
    /\ foreign["c1"] = {1} /\ foreign["c2"] = {1}
    /\ owed["c1"] = {2} /\ owed["c2"] = {2}
    /\ inbox[pubsub] = <<>>
    /\ Len(recv["c1"]) = 1 /\ recv["c1"][1].id = 2
    /\ recv["c2"] = recv["c1"]

\* The cluster channel alone: consumers subscribe to topics, stop, and are
\* handed what the channel and another client of the cluster publish.
NextCluster ==
    \/ \E c \in {"c1", "c2"} : \E t \in Topics : ClSubscribeStart(c, t)
    \/ \E c \in {"c1", "c2"} : ClSsubDone(c)
    \/ \E c \in {"c1", "c2"} : ClReceive(c)
    \/ \E c \in {"c1", "c2"} : ClExit(c)
    \/ \E c \in {"c1", "c2"} : ClSunsubDone(c)
    \/ ClBackendListen
    \/ ClListen
    \/ \E t \in Topics : ClPublishStart(t)
    \/ ClPublishDone
    \/ \E t \in Topics : \E sh \in Shapes : ClForeignPublish(t, sh)

SpecCluster == InitCluster /\ [][NextCluster]_vars

\* C17: a frame whose body is no envelope is never raised to a consumer of
\* the cluster channel: no consumer is handed a message for it and no
\* consumer's iteration ends with the parse error.
C17_ClusterMalformedNeverRaised ==
    \A c \in Consumers :
        /\ cl_pc[c] # "err_decode"
        /\ \A m \in cl_foreign : Times(cl_recv[c], m) = 0

\* What consumer c of the cluster channel was handed or has on its queue, as
\* the ids of the events.
ClGotIds(c) ==
    [i \in 1..Len(cl_recv[c]) |-> cl_recv[c][i].id]
        \o [i \in 1..Len(cl_queue[c]) |-> cl_queue[c][i].message.id]

\* The ids of the events for topic t that the channel listener has not fanned
\* out yet: on the backend queue, or unread on the sharded pubsub handle.
ClPending(t) ==
    LET q == SelectSeq(be_queue, LAMBDA e : e.channel = t)
        u == IF be_pubsub = NoHandle THEN <<>>
             ELSE SelectSeq(cl_inbox[be_pubsub], LAMBDA f : f.channel = t) IN
    [i \in 1..Len(q) |-> q[i].message.id] \o [i \in 1..Len(u) |-> u[i].data.id]

Count(seq, x) == Cardinality({i \in DOMAIN seq : seq[i] = x})

\* C18: a message published to T after consumers have registered on T, in
\* whatever order their concurrent subscribe(T) calls resumed from the await
\* of SSUBSCRIBE, reaches each of them exactly once: it is on its way to the
\* fan-out, or on the consumer's queue or handed to it, one time.
C18_ClusterConcurrentSubscribersAllReceive ==
    \A c \in Consumers :
        cl_pc[c] = "consuming" =>
            \A m \in cl_owed[c] :
                Count(ClGotIds(c), m) + Count(ClPending(cl_target[c]), m) = 1

\* C19: a subscribe(T) call issues SSUBSCRIBE only when no other consumer is
\* registered or registering on T.
C19_ClusterSsubscribeOnlyFirstRegistrant ==
    [][\A c \in Consumers :
          (cl_pc[c] = "idle" /\ cl_pc'[c] = "ssub_await") =>
              \A d \in Consumers \ {c} :
                  ~ /\ cl_pc[d] \in {"ssub_await", "consuming"}
                    /\ cl_target[d] = cl_target'[c]]_vars

\* The consumers that are registering on topic t, in their loop on it, or in
\* the cleanup of their subscription to it.
ClActive(t) ==
    {c \in Consumers :
        cl_target[c] = t /\ cl_pc[c] \in {"ssub_await", "consuming", "sunsub_await"}}

\* Subscribing, leaving and cancellation on the cluster channel: every broker
\* command succeeds, a consumer may be cancelled at any of its awaits.
NextClusterLeave ==
    \/ \E c \in {"c1", "c2"} : \E t \in Topics : ClSubscribeStart(c, t)
    \/ \E c \in {"c1", "c2"} : ClSsubDone(c)
    \/ \E c \in {"c1", "c2"} : ClExit(c)
    \/ \E c \in {"c1", "c2"} : ClSunsubDone(c)
    \/ \E c \in {"c1", "c2"} : ClCancelSetup(c)
    \/ \E c \in {"c1", "c2"} : ClCancelCleanup(c)

SpecClusterLeave == InitCluster /\ [][NextClusterLeave]_vars

\* C20: when no consumer of topic T is registering, consuming or cleaning up
\* any more, no sharded subscription for T remains on the cluster.
C20_ClusterTeardownWhenAllLeft ==
    \A t \in Topics :
        ClActive(t) = {} =>
            \A h \in Handles : t \notin cl_brokerSubs[h]

\* The life of the listener task: two consumers subscribe to topic "a" and a
\* third to the pattern, the first may stop, the listener runs and is
\* cancelled, and close() is called while all this goes on.
NextListener ==
    \/ \E c \in {"c1", "c2"} : SubscribeStart(c, "topic", "a")
    \/ SubscribeStart("c3", "pattern", "a*")
    \/ \E c \in Consumers : SetupGotLock(c)
    \/ \E c \in Consumers : SetupSubDone(c)
    \/ Exit("c1")
    \/ CleanGotLock("c1")
    \/ CleanUnsubDone("c1")
    \/ \E l \in Listeners : ListenerRun(l)
    \/ \E l \in Listeners : ListenerCancelled(l)
    \/ CloseStart
    \/ CloseListenerJoined
    \/ ClosePubsubDone
    \/ CloseRedisDone

SpecListener == Init /\ [][NextListener]_vars

\* The listener tasks that have not finished.
AliveListeners == {l \in Listeners : Live(l)}

\* C21: at most one listener task is alive at any moment, so that no two
\* tasks read the pub/sub handle and no listener is started while another one
\* is running.
C21_AtMostOneListener == Cardinality(AliveListeners) <= 1

\* A step of a publish() call of the RedisChannel: the call starts (and is
\* suspended at its broker write or refused at once) or its write returns.
PublishStep == ppc' # ppc \/ pres' # pres

\* The same for the RedisClusterChannel.
ClPublishStep == cl_ppc' # cl_ppc \/ cl_pres' # cl_pres

\* What publish() must leave alone on a RedisChannel: the registration tables,
\* the subscribed sets and the consumers' queues.
PublishFrame ==
    UNCHANGED <<subscribers, pattern_subscribers, subscribed_channels,
                subscribed_patterns, queue, recv>>

ClPublishFrame == UNCHANGED <<cl_keys, cl_subs, be_subscribed, cl_queue, cl_recv>>

\* C22: every publish() call issues one broker write, when it starts, and none
\* when the write returns or fails; the failure reaches the caller; no step of
\* the call touches a registration table, a subscribed set or a consumer queue.
C22_PublishOneWriteOnly ==
    [][/\ PublishStep =>
              /\ PublishFrame
              /\ ppc = "idle" => (ppc' = "pub_await" /\ nmsg' = nmsg + 1)
              /\ ppc = "pub_await" =>
                     (ppc' = "idle" /\ nmsg' = nmsg /\ pres' \in {"ok", "err_io"})
       /\ ClPublishStep =>
              /\ ClPublishFrame
              /\ cl_ppc = "idle" => (cl_ppc' = "spub_await" /\ cl_nmsg' = cl_nmsg + 1)
              /\ cl_ppc = "spub_await" =>
                     (cl_ppc' = "idle" /\ cl_nmsg' = cl_nmsg
                         /\ cl_pres' \in {"ok", "err_io"})]_vars

\* C23: no consumer queue, of either backend, ever holds more messages than
\* the queue capacity.
C23_ConsumerQueuesBounded ==
    \A c \in Consumers :
        /\ Len(queue[c]) <= QueueMaxsize
        /\ Len(cl_queue[c]) <= QueueMaxsize

\* The step changes a registration table or a subscribed set.
TablesChanged ==
    <<subscribers, pattern_subscribers, subscribed_channels, subscribed_patterns>>'
        # <<subscribers, pattern_subscribers, subscribed_channels, subscribed_patterns>>

\* C24: a registration table or a subscribed set is changed only by the
\* operation that holds the subscription lock, or when nobody holds it and
\* the operation takes it as part of the step: never while another operation
\* holds the lock.
C24_TableMutationUnderLock ==
    [][TablesChanged =>
          \/ lockHolder = "none"
          \/ lockHolder \in Consumers /\ pc'[lockHolder] # pc[lockHolder]
          \/ lockHolder \notin Consumers /\ upc' # upc]_vars

\* Transport errors on the listener's read: two consumers subscribe to topic
\* "a" and consume, messages are published, and a read of the listener may
\* fail at any time.
NextRetry ==
    \/ \E c \in {"c1", "c2"} : SubscribeStart(c, "topic", "a")
    \/ \E c \in {"c1", "c2"} : SetupGotLock(c)
    \/ \E c \in {"c1", "c2"} : SetupSubDone(c)
    \/ \E c \in {"c1", "c2"} : Receive(c)
    \/ \E l \in Listeners : ListenerRun(l)
    \/ \E l \in Listeners : ListenerGet(l)
    \/ \E l \in Listeners : ListenerError(l)
    \/ \E l \in Listeners : ListenerWake(l)
    \/ PublishStart("a")
    \/ PublishDone

\* The event loop runs the listener task and its sleep ends; the broker
\* recovers: a read with a frame pending does not fail for ever.
FairRetry ==
    \A l \in Listeners :
        /\ WF_vars(ListenerRun(l))
        /\ WF_vars(ListenerWake(l))
        /\ SF_vars(ListenerGet(l))

SpecRetry == Init /\ [][NextRetry]_vars /\ FairRetry

\* C25: a failed read leaves the listener alive and the consumers registered,
\* and every message the broker delivered for a registered consumer ends up
\* on that consumer's queue (or is dropped because the queue is full),
\* however many reads failed before.
C25_ListenerSurvivesTransportError ==
    /\ [](listener_task # NoTask => Live(listener_task))
    /\ [](\A c \in Consumers :
             pc[c] = "consuming" => c \in Table(St, kind[c])[target[c]])
    /\ \A c \in Consumers : \A m \in 1..MaxMsgs :
           (pc[c] = "consuming" /\ m \in owed[c])
               ~> (Times(Got(c), m) = 1 \/ m \in dropped[c])

\* The listener sleeps after a failed read while a message for both
\* registered consumers waits on the connection.
C25_Witness ==
    /\ listener_task # NoTask
    /\ ltask[listener_task] = "sleeping"
    /\ pc["c1"] = "consuming" /\ pc["c2"] = "consuming"
    /\ owed["c1"] = {1} /\ owed["c2"] = {1}
    /\ TimesUnread(pubsub, "a", 1) = 1

C27_SubscribeOnceBeforeConsuming ==
    [][\A c \in Consumers :
          /\ (pc[c] # "setup_sub" /\ pc'[c] = "setup_sub" /\ kind'[c] = "topic") =>
                 /\ target'[c] \notin subscribed_channels
                 /\ \A d \in Consumers \ {c} :
                        ~(pc[d] = "setup_sub" /\ kind[d] = "topic"
                              /\ target[d] = target'[c])
          /\ (pc[c] # "consuming" /\ pc'[c] = "consuming" /\ kind'[c] = "topic") =>
                 /\ target'[c] \in subscribed_channels'
                 /\ pubsub' # NoHandle
                 /\ <<"topic", target'[c]>> \in brokerSubs'[pubsub']
                 /\ nsub'[<<"topic", target'[c]>>]
                        = nunsub'[<<"topic", target'[c]>>] + 1]_vars

\* Three concurrent subscribe("a") calls: the first is in its loop after the
\* one SUBSCRIBE, the second has just been handed the lock, the third still
\* waits for it.
C27_Witness ==
    /\ \A c \in Consumers : kind[c] = "topic" /\ target[c] = "a"
    /\ pc["c1"] = "consuming"
    /\ pc["c2"] = "setup_lock" /\ lockHolder = "c2"
    /\ pc["c3"] = "setup_lock" /\ lockWaiters = <<"c3">>
    /\ nsub[<<"topic", "a">>] = 1 /\ nunsub[<<"topic", "a">>] = 0

\* C28: whoever holds the subscription lock, and whoever waits for it, a
\* listener with a frame to dispatch can dispatch it, and the dispatch leaves
\* the lock and its waiters as they are.
C28_DispatchNeverTakesLock ==
    \A l \in Listeners :
        ReadyToDispatch(l) =>
            ENABLED (ListenerGet(l) /\ UNCHANGED <<lockHolder, lockWaiters>>)

\* A consumer of topic "a" waits for its next message, whose frame is the
\* next on the connection, while a subscribe("b") holds the lock and awaits
\* its SUBSCRIBE.
C28_Witness ==
    /\ pc["c1"] = "consuming" /\ target["c1"] = "a" /\ queue["c1"] = <<>>
    /\ pc["c2"] = "setup_sub" /\ target["c2"] = "b" /\ lockHolder = "c2"
    /\ listener_task # NoTask /\ ReadyToDispatch(listener_task)
    /\ Head(inbox[pubsub]).channel = "a"

\* C29: a listener task is created only by a step of subscribe() or
\* psubscribe() that takes the consumer into its loop, never by publish();
\* a consumer that leaves its loop does not change the state of any listener
\* task; a listener task ends only after close() has been called.
C29_ListenerLazyAndOutlivesConsumers ==
    [][/\ nlisten' # nlisten =>
              /\ ~PublishStep
              /\ \E c \in Consumers :
                     /\ pc[c] \in {"idle", "setup_lock", "setup_sub"}
                     /\ pc'[c] = "consuming"
       /\ PublishStep => UNCHANGED <<listener_task, ltask>>
       /\ \A c \in Consumers :
              (pc[c] = "consuming" /\ pc'[c] # "consuming") => ltask' = ltask
       /\ \A l \in Listeners :
              (ltask[l] # "done" /\ ltask'[l] = "done") => ncloses > 0]_vars

\* Messages were published, the only consumer has left and its cleanup is
\* over, close() was never called: the listener is still reading.
C29_Witness ==
    /\ pc["c1"] = "done"
    /\ nmsg > 0 /\ ppc = "idle"
    /\ ncloses = 0
    /\ listener_task # NoTask /\ ltask[listener_task] = "reading"

\* The broker-side subscriptions of kind k, on every handle.
BrokerSubsOf(k) == [h \in Handles |-> {x \in brokerSubs[h] : x[1] = k}]

\* What a subscription of kind k works on: its table, its subscribed set, the
\* broker-side subscriptions of its kind and the calls issued for them.
KindState(k) ==
    <<IF k = "topic" THEN subscribers ELSE pattern_subscribers,
      IF k = "topic" THEN subscribed_channels ELSE subscribed_patterns,
      BrokerSubsOf(k),
      [x \in {y \in Targets : y[1] = k} |-> <<nsub[x], nunsub[x]>>]>>

\* C30: PSUBSCRIBE(P) is issued only when P is not recorded as subscribed,
\* and a consumer of P enters its loop with P subscribed at the broker;
\* PUNSUBSCRIBE(P) is issued only when the registration set of P is empty,
\* once per PSUBSCRIBE; a step of a topic subscription leaves the pattern
\* table, the subscribed patterns and the broker-side pattern subscriptions
\* alone, and a step of a pattern subscription those of the topics.
C30_PatternRefcountIndependent ==
    [][\A c \in Consumers :
          pc'[c] # pc[c] =>
              /\ kind'[c] = "topic" => KindState("pattern")' = KindState("pattern")
              /\ kind'[c] = "pattern" =>
                     /\ KindState("topic")' = KindState("topic")
                     /\ (pc[c] # "setup_sub" /\ pc'[c] = "setup_sub") =>
                            target'[c] \notin subscribed_patterns
                     /\ pc'[c] = "consuming" =>
                            /\ target'[c] \in subscribed_patterns'
                            /\ <<"pattern", target'[c]>> \in brokerSubs'[pubsub']
                     /\ pc'[c] = "clean_unsub" =>
                            /\ pattern_subscribers'[target'[c]] = {}
                            /\ target'[c] \in subscribed_patterns'
                     /\ LET x == <<"pattern", target'[c]>> IN
                            nunsub'[x] <= nsub'[x] /\ nsub'[x] <= nunsub'[x] + 1]_vars

\* A consumer of the topic "a" and a consumer of the pattern spelt "a" were
\* both registered; the pattern consumer has left, PUNSUBSCRIBE was issued
\* once, and the topic is still subscribed and its consumer registered.
C30_Witness ==
    /\ kind["c1"] = "topic" /\ target["c1"] = "a" /\ pc["c1"] = "consuming"
    /\ kind["c2"] = "pattern" /\ target["c2"] = "a" /\ pc["c2"] = "done"
    /\ nsub[<<"pattern", "a">>] = 1 /\ nunsub[<<"pattern", "a">>] = 1
    /\ nsub[<<"topic", "a">>] = 1 /\ nunsub[<<"topic", "a">>] = 0
    /\ subscribers["a"] = {"c1"} /\ pattern_subscribers["a"] = {}
    /\ "a" \in subscribed_channels /\ "a" \notin subscribed_patterns
    /\ brokerSubs[pubsub] = {<<"topic", "a">>}

\* --------------------------------------------------------- C31 .. C39

\* C31: when a close() of the RedisChannel returns and no other call was in
\* flight during it, no listener task is running (the referenced one
\* included), the
\* pubsub handle and the connection the channel held are closed and released,
\* both registration tables and both subscribed sets are empty, and the
\* channel is marked not connected.
C31_CloseAloneLeavesNothing ==
    /\ (justClosed /\ alone) =>
        /\ ~connected
        /\ ~ListenerRunning(St)
        /\ \A l \in Listeners : ~Live(l)
        /\ redis = NoHandle
        /\ pubsub = NoHandle
        /\ \A t \in Topics : subscribers[t] = {}
        /\ \A p \in Patterns : pattern_subscribers[p] = {}
        /\ subscribed_channels = {}
        /\ subscribed_patterns = {}
    /\ (alone /\ kpc = "close_pubsub") => pubsub \in closedPubsub
    /\ (alone /\ kpc = "close_redis") =>
            /\ pubsub = NoHandle
            /\ redis \in closedRedis

\* Frames of every origin on either backend: a topic consumer and a pattern
\* consumer of the RedisChannel, which may leave (two topic consumers of the
\* cluster channel) are handed what the channel publishes, what another client publishes as an
\* envelope without a channel field, and the broker's replies that name no
\* topic.
NextFrames ==
    \/ SubscribeStart("c1", "topic", "a")
    \/ SubscribeStart("c2", "pattern", "a*")
    \/ \E c \in {"c1", "c2"} : SetupGotLock(c)
    \/ \E c \in {"c1", "c2"} : SetupSubDone(c)
    \/ \E c \in {"c1", "c2"} : Receive(c)
    \/ \E c \in {"c1", "c2"} : Exit(c)
    \/ \E c \in {"c1", "c2"} : CleanGotLock(c)
    \/ \E c \in {"c1", "c2"} : CleanUnsubDone(c)
    \/ \E l \in Listeners : ListenerRun(l)
    \/ \E l \in Listeners : ListenerGet(l)
    \/ PublishStart("a")
    \/ PublishDone
    \/ ForeignPublish("a", "envelope")
    \/ Pong
    \/ \E c \in {"c1", "c2"} : ClSubscribeStart(c, "a")
    \/ \E c \in {"c1", "c2"} : ClSsubDone(c)
    \/ \E c \in {"c1", "c2"} : ClReceive(c)
    \/ ClBackendListen
    \/ ClListen
    \/ ClPublishStart("a")
    \/ ClPublishDone
    \/ ClForeignPublish("a", "envelope")

SpecFrames == InitAny /\ [][NextFrames]_vars

\* C32: every ChannelMessage on a consumer's queue or handed to a consumer
\* names a channel; one built from an envelope without a channel field names
\* the topic of its frame (RedisChannel: the consumer's topic, or a topic its
\* pattern matches) or the subscribed topic (RedisClusterChannel); the body of
\* a frame that names no topic reaches no queue.
C32_HandedMessageNamesChannel ==
    /\ \A c \in Consumers :
          \A i \in DOMAIN Got(c) :
             LET m == Got(c)[i] IN
             /\ m.channel # ""
             /\ m.id # Bare(0).id
             /\ m.event = Bare(m.id).event =>
                    IF kind[c] = "topic" THEN m.channel = target[c]
                    ELSE Matches(target[c], m.channel)
    /\ \A c \in Consumers :
          \A i \in DOMAIN cl_recv[c] :
             LET m == cl_recv[c][i] IN
             /\ m.channel # ""
             /\ m.event = Bare(m.id).event => m.channel = cl_target[c]

C32_Witness ==
    /\ \E i \in DOMAIN recv["c1"] :
          recv["c1"][i].event = "foreign" /\ recv["c1"][i].channel = "a"
    /\ \E i \in DOMAIN recv["c2"] :
          recv["c2"][i].event = "foreign" /\ recv["c2"][i].channel = "a"
    /\ kind["c2"] = "pattern"
    /\ inbox[pubsub] = <<>>

\* C33: in every state of the RedisChannel where no call is part-way through,
\* a channel marked connected holds a connection handle and a pubsub handle,
\* so publish() and subscribe() on it do not raise the "not connected" error;
\* also after a close() that overlapped a publish() or a subscribe().
C33_ConnectedImpliesHandles ==
    (Quiescent /\ ppc = "idle" /\ connected) =>
        /\ redis # NoHandle
        /\ pubsub # NoHandle

\* C34: with no call part-way through, every topic in the subscribed-topics
\* set and every pattern in the subscribed-patterns set of the RedisChannel
\* has its SUBSCRIBE / PSUBSCRIBE in effect on the channel's current pubsub
\* handle; a subscribe(T) that was awaiting the broker when close() ran leaves
\* no such record behind.
C34_RecordedMeansSubscribed ==
    Quiescent =>
        /\ \A t \in subscribed_channels : InEffect(<<"topic", t>>)
        /\ \A p \in subscribed_patterns : InEffect(<<"pattern", p>>)

\* C35: at the step by which a subscribe(T) / psubscribe(P) call of the
\* RedisChannel ends its setup and starts waiting for messages, its queue is
\* in the registration set of its target and the target is recorded as
\* subscribed, whatever unsubscribe(), close() and the other consumers did
\* during the setup.
C35_SetupEndsRegistered ==
    [][\A c \in Consumers :
          (pc[c] # "consuming" /\ pc'[c] = "consuming") =>
              IF kind'[c] = "topic"
              THEN /\ c \in subscribers'[target'[c]]
                   /\ target'[c] \in subscribed_channels'
              ELSE /\ c \in pattern_subscribers'[target'[c]]
                   /\ target'[c] \in subscribed_patterns'
      ]_vars

\* C36: whenever a consumer of the RedisChannel is registered and waiting for
\* messages and no close() is in progress, the task the channel references
\* as its listener is alive and reads the channel's current pubsub handle; a
\* subscribe() that overlapped close() is not left registered on a connected
\* channel without a running listener.
C36_RegisteredMeansListening ==
    (/\ kpc = "idle"
     /\ \E c \in Consumers :
           pc[c] = "consuming" /\ c \in Table(St, kind[c])[target[c]]) =>
        /\ ListenerRunning(St)
        /\ pubsub # NoHandle
        /\ pubsub \notin closedPubsub

C36_Witness ==
    /\ kpc = "idle"
    /\ ncloses > 0
    /\ overlap # {}
    /\ connected
    /\ \E c \in Consumers :
          pc[c] = "consuming" /\ c \in Table(St, kind[c])[target[c]]
    /\ listener_task > 1
    /\ ltask[listener_task] = "reading"

\* Consumers leaving on either backend: two consumers of topic "a" come and
\* go while unsubscribe("a") and close() run (RedisChannel), or while their
\* first subscribes to "a" overlap (RedisClusterChannel).
NextExit ==
    \/ \E c \in {"c1", "c2"} : SubscribeStart(c, "topic", "a")
    \/ \E c \in {"c1", "c2"} : SetupGotLock(c)
    \/ \E c \in {"c1", "c2"} : SetupSubDone(c)
    \/ \E c \in {"c1", "c2"} : Exit(c)
    \/ \E c \in {"c1", "c2"} : CleanGotLock(c)
    \/ \E c \in {"c1", "c2"} : CleanUnsubDone(c)
    \/ \E l \in Listeners : ListenerRun(l)
    \/ \E l \in Listeners : ListenerCancelled(l)
    \/ UnsubscribeStart("a")
    \/ UnsubscribeGotLock
    \/ UnsubscribeDone
    \/ CloseStart
    \/ CloseListenerJoined
    \/ ClosePubsubDone
    \/ CloseRedisDone
    \/ \E c \in {"c1", "c2"} : ClSubscribeStart(c, "a")
    \/ \E c \in {"c1", "c2"} : ClSsubDone(c)
    \/ \E c \in {"c1", "c2"} : ClExit(c)
    \/ \E c \in {"c1", "c2"} : ClSunsubDone(c)

SpecExit == InitAny /\ [][NextExit]_vars

\* C37: the step by which a consumer's exit cleanup issues UNSUBSCRIBE /
\* PUNSUBSCRIBE (RedisChannel) or SUNSUBSCRIBE (RedisClusterChannel) for its
\* target is taken with no other consumer's queue in the registration set of
\* that target, also when the leaving consumer had been orphaned before.
C37_CleanupUnsubscribesOnlyWhenLast ==
    [][/\ \A c \in Consumers :
            (pc[c] # "clean_unsub" /\ pc'[c] = "clean_unsub") =>
                /\ Table(St, kind[c])[target[c]] \ {c} = {}
                /\ IF kind[c] = "topic"
                   THEN subscribers'[target[c]] = {}
                   ELSE pattern_subscribers'[target[c]] = {}
       /\ \A c \in Consumers :
            (cl_pc[c] # "sunsub_await" /\ cl_pc'[c] = "sunsub_await") =>
                /\ cl_subs[cl_target[c]] \ {c} = {}
                /\ cl_subs'[cl_target[c]] = {}
      ]_vars

\* Consumer c1 was orphaned (by unsubscribe() or close(); on the cluster it
\* may also have left as a registered consumer) and has left while c2 stays
\* registered for the same topic: no broker unsubscribe was issued.
C37_Witness ==
    \/ /\ impl = "redis"
       /\ pc["c1"] = "done"
       /\ pc["c2"] = "consuming"
       /\ subscribers["a"] = {"c2"}
       /\ nsub[<<"topic", "a">>] = 2
       /\ nunsub[<<"topic", "a">>] = 0
       /\ InEffect(<<"topic", "a">>)
    \/ /\ impl = "cluster"
       /\ cl_pc["c1"] = "done"
       /\ cl_pc["c2"] = "consuming"
       /\ cl_subs["a"] = {"c2"}
       /\ "a" \in be_subscribed

\* C38: when a close() of the RedisChannel returns, every connection handle
\* and every pubsub handle the channel has created is closed, or is still the
\* one the channel holds (so that a later close() closes it); a reconnect by
\* publish() or subscribe() during close() leaves no handle open and
\* unreferenced.
C38_NoHandleLeftOpen ==
    justClosed =>
        \A h \in 1..nconn :
            /\ h \in closedRedis \/ h = redis
            /\ h \in closedPubsub \/ h = pubsub

\* C39: the step by which the listener of the RedisChannel dispatches a frame
\* changes no registration table and no subscribed set, and changes the queue
\* of a consumer only if that consumer is registered under the topic of a
\* "message" frame or under the pattern of a "pmessage" frame; a frame whose
\* target has no registered queue, or whose type is neither, changes no queue
\* and drops nothing.
C39_DispatchTouchesOnlyTargetQueues ==
    [][(/\ pubsub # NoHandle
        /\ inbox[pubsub] # <<>>
        /\ inbox' = [inbox EXCEPT ![pubsub] = Tail(@)]
        /\ UNCHANGED <<closedPubsub, closeVars>>) =>
          LET f == Head(inbox[pubsub])
              reg == IF f.type = "message" THEN subscribers[f.channel]
                     ELSE IF f.type = "pmessage"
                     THEN pattern_subscribers[f.pattern]
                     ELSE {} IN
          /\ UNCHANGED <<subscribers, pattern_subscribers,
                         subscribed_channels, subscribed_patterns>>
          /\ UNCHANGED <<pc, recv, brokerSubs>>
          /\ \A c \in Consumers \ reg :
                queue'[c] = queue[c] /\ dropped'[c] = dropped[c]
          /\ reg = {} => UNCHANGED <<queue, dropped>>
      ]_vars

\* The "message" frame of a publish on "a" has been dispatched to the topic
\* consumer alone; its "pmessage" frame is the next one to read.
C39_Witness ==
    /\ pc["c1"] = "consuming" /\ kind["c1"] = "topic"
    /\ pc["c2"] = "consuming" /\ kind["c2"] = "pattern"
    /\ Len(queue["c1"]) = 1
    /\ queue["c2"] = <<>> /\ recv["c2"] = <<>>
    /\ pubsub # NoHandle
    /\ inbox[pubsub] # <<>>
    /\ Head(inbox[pubsub]).type = "pmessage"
    /\ Head(inbox[pubsub]).data.id = queue["c1"][1].id

====
